---- MODULE Spec2Model ----
(***************************************************************************)
(* Anomaly-detection and alert-lifecycle pipeline of the monitoring        *)
(* backend: AIEngine (services/ai_engine.py), AlertManager                 *)
(* (services/alert_manager.py) and the agent WebSocket handler (main.py).  *)
(*                                                                         *)
(* Python dicts are functions with a set of strings as domain; lists and   *)
(* numpy vectors are sequences.  Metric values are integers.               *)
(***************************************************************************)
EXTENDS Integers, Sequences, FiniteSets, TLC

VARIABLES
    initialized,      \* AIEngine.initialized
    historical_data,  \* AIEngine.historical_data, oldest entry first
    anomaly_models,   \* AIEngine.anomaly_models / scalers: last training window per family
    active_alerts,    \* AlertManager.active_alerts, in dict insertion order
    alert_history,    \* AlertManager.alert_history
    now,              \* the wall clock that datetime.now() reads
    script,           \* which telemetry feed drives the agent connection
    ingested,         \* every snapshot handed to an initialized detect_anomalies, in order
    anomalies,        \* the list the last detect_anomalies call returned
    failedAt,         \* the step of the last detect_anomalies pass that raised, or "none"
    propagated,       \* whether the last call let an exception reach its caller
    sent,             \* the messages the last handler run broadcast to the dashboards
    lastOp,           \* the operation that ran last
    lastArg,          \* its argument
    lastRet,          \* its return value
    notified,         \* _send_notifications calls made by the last process_alert
    seen,             \* (type, source) -> Findings process_alert handled, and when last
    resolvedIds,      \* the alert ids resolve_alert has resolved
    resolvedAt,       \* alert id -> the time of its latest successful resolve_alert
    processCalls,     \* number of process_alert calls
    socket,           \* WebSocket -> "new", "open", or "closed" by its client
    accepted,         \* the WebSockets in the order manager.connect accepted them
    active_connections,   \* ConnectionManager.active_connections
    agent_connections,    \* ConnectionManager.agent_connections
    task,             \* handler or background task -> where it stands, and its locals
    running           \* the task that holds the event loop, or None

engineVars == <<initialized, historical_data, anomaly_models, script, ingested,
                anomalies, failedAt, propagated, sent>>
alertVars  == <<active_alerts, alert_history, notified, seen, resolvedIds, resolvedAt,
               processCalls>>
serverVars == <<socket, accepted, active_connections, agent_connections, task, running>>
vars == <<engineVars, alertVars, serverVars, now, lastOp, lastArg, lastRet>>

-----------------------------------------------------------------------------
(* Bounds of the exploration *)

MaxFree == 2        \* snapshots of a free (unscripted) feed
MaxOver == 2        \* snapshots a scripted feed sends beyond the buffer's capacity
MaxIdle == 3        \* group-less snapshots a scripted feed sends after its ramp
MaxTime == 1        \* the clock stops advancing here in unscripted runs
MaxProcess == 2     \* process_alert calls
MaxDays == 1        \* stretches of more than the retention time that pass
MinBuffer == 9      \* the shortest buffer the trend detector is applied to
MaxBuffer == 21     \* the longest buffer the trend detector is applied to
Near == 2           \* how far around a history gate the buffer lengths range
MaxEarlier == 1     \* buffered snapshots before the latest one in a health check
RiseLen == 60       \* snapshots of the feed whose memory usage rises from 10 to 70
MaxMessages == 1    \* snapshots an agent connection delivers

-----------------------------------------------------------------------------
(* Program constants *)

HistMaxLen == 1000          \* deque(maxlen=1000)
CpuThreshold == 80          \* thresholds['cpu_usage']
MemoryThreshold == 85       \* thresholds['memory_usage']
DiskThreshold == 90         \* thresholds['disk_usage']
LatencyThreshold == 200     \* thresholds['network_latency']
CpuCritical == 95
MemoryCritical == 95
DiskCritical == 98
SystemMinHistory == 50      \* len(historical_data) > 50, window [-50:]
NetworkMinHistory == 30     \* len(historical_data) > 30, window [-30:]
MinTraining == 10           \* len(training_features) > 10
PatternMinHistory == 20     \* len(historical_data) < 20: no pattern analysis
CpuWindow == 20             \* list(historical_data)[-20:]
CpuMinValues == 15          \* len(cpu_values) >= 15
CpuAvgSpan == 5             \* cpu_values[-5:], cpu_values[-15:-10]
CpuJump == 30               \* recent_avg > older_avg + 30
MemoryWindow == 15          \* list(historical_data)[-15:]
MemoryMinValues == 10       \* len(memory_values) >= 10
LeakSlope == 2              \* slope > 2
PredictMinHistory == 10     \* len(historical_data) < 10: no predictions
PredictWindow == 10         \* list(historical_data)[-10:]
PredictMinValues == 5       \* len(usage_history) >= 5
DiskFull == 100             \* 100 - current_usage
DiskSlopeInv == 10          \* slope > 0.1
DiskHorizon == 100          \* time_to_full < 100
DiskGain == 10              \* slope * 10
MemoryExhausted == 95       \* 95 - current_usage
MemorySlopeInv == 2         \* slope > 0.5
MemoryHorizon == 50         \* time_to_exhaustion < 50
MemoryGain == 5             \* slope * 5

-----------------------------------------------------------------------------
(* Python helpers *)

None == "None"

EmptyDict == [k \in {} |-> 0]

\* dict.get(key, default)
Get(d, k, default) == IF k \in DOMAIN d THEN d[k] ELSE default

Range(s) == {s[i] : i \in 1..Len(s)}

Min(a, b) == IF a < b THEN a ELSE b

Max(a, b) == IF a > b THEN a ELSE b

\* s[-k:] for k >= 1
LastK(s, k) == IF Len(s) <= k THEN s ELSE SubSeq(s, Len(s) - k + 1, Len(s))

\* s[-hi:-lo] for hi > lo >= 1
SliceFromEnd(s, hi, lo) ==
    LET first == IF Len(s) >= hi THEN Len(s) - hi + 1 ELSE 1
        last  == Len(s) - lo
    IN  IF last < first THEN <<>> ELSE SubSeq(s, first, last)

RECURSIVE Sum(_)
Sum(s) == IF s = <<>> THEN 0 ELSE Head(s) + Sum(Tail(s))

RECURSIVE Flatten(_)
Flatten(ss) == IF ss = <<>> THEN <<>> ELSE Head(ss) \o Flatten(Tail(ss))

\* collections.deque(maxlen=HistMaxLen).append: a full deque drops its oldest entry
DequeAppendNoEvict(q, x) == Append(q, x)

DequeAppend(q, x) ==
    IF Len(q) >= HistMaxLen THEN Append(Tail(q), x) ELSE Append(q, x)

-----------------------------------------------------------------------------
(* AIEngine: feature extraction *)

\* Optional[np.ndarray]: None is the empty sequence (the code never returns an
\* empty vector: "... if features else None")
NoFeatures == <<>>

_extract_system_features(metrics_data) ==
    (IF "cpu" \in DOMAIN metrics_data
     THEN LET cpu_data == metrics_data["cpu"]
          IN  << Get(cpu_data, "usage_percent", 0),
                 Get(cpu_data, "load_avg_1m", 0),
                 Get(cpu_data, "load_avg_5m", 0),
                 Get(cpu_data, "context_switches", 0) >>
     ELSE <<>>)
    \o
    (IF "memory" \in DOMAIN metrics_data
     THEN LET mem_data == metrics_data["memory"]
          IN  << Get(mem_data, "usage_percent", 0),
                 Get(mem_data, "available_mb", 0),
                 Get(mem_data, "swap_usage_percent", 0) >>
     ELSE <<>>)
    \o
    (IF "disk" \in DOMAIN metrics_data
     THEN LET disk_data == metrics_data["disk"]
          IN  << Get(disk_data, "usage_percent", 0),
                 Get(disk_data, "read_bytes_per_sec", 0),
                 Get(disk_data, "write_bytes_per_sec", 0),
                 Get(disk_data, "io_wait_percent", 0) >>
     ELSE <<>>)

\* a network vector that reads a missing latency as 1
_extract_network_features_LatencyOne(metrics_data) ==
    IF "network" \in DOMAIN metrics_data
    THEN LET net_data == metrics_data["network"]
         IN  << Get(net_data, "latency_ms", 1),
                Get(net_data, "packet_loss_percent", 0),
                Get(net_data, "bandwidth_usage_percent", 0),
                Get(net_data, "connections_count", 0),
                Get(net_data, "bytes_sent_per_sec", 0),
                Get(net_data, "bytes_recv_per_sec", 0) >>
    ELSE <<>>

_extract_network_features(metrics_data) ==
    IF "network" \in DOMAIN metrics_data
    THEN LET net_data == metrics_data["network"]
         IN  << Get(net_data, "latency_ms", 0),
                Get(net_data, "packet_loss_percent", 0),
                Get(net_data, "bandwidth_usage_percent", 0),
                Get(net_data, "connections_count", 0),
                Get(net_data, "bytes_sent_per_sec", 0),
                Get(net_data, "bytes_recv_per_sec", 0) >>
    ELSE <<>>

\* bool(x) of "if system_features:" / "if network_features:": None is falsy, a
\* one-element array has the truth of its element, and numpy raises ValueError
\* ("truth value of an array with more than one element is ambiguous") otherwise
ArrayTruth(features) ==
    IF features = NoFeatures THEN "false"
    ELSE IF Len(features) > 1 THEN "raise"
    ELSE IF features[1] # 0 THEN "true" ELSE "false"

-----------------------------------------------------------------------------
(* AIEngine: detectors *)

Unfit == [scaler |-> <<>>, model |-> <<>>]

FreshModels == [system_metrics |-> Unfit, network_metrics |-> Unfit]

\* what the IsolationForest does with the current vector is the environment's choice
Verdicts == {"inlier", "medium", "high", "raise"}

\* the forest gives a verdict only where the engine consults the detector
VerdictsFor(features) ==
    IF initialized /\ ArrayTruth(features) = "true" THEN Verdicts ELSE {"inlier"}

\* the feature rows of the entries of a window that have the family
FeaturesOf(family, metrics_data) ==
    IF family = "system_metrics" THEN _extract_system_features(metrics_data)
    ELSE _extract_network_features(metrics_data)

TrainingRows(window, family) ==
    LET with == SelectSeq(window,
                          LAMBDA entry : FeaturesOf(family, entry.data) # NoFeatures)
    IN  [i \in 1..Len(with) |-> FeaturesOf(family, with[i].data)]

\* np.array(rows) of rows of unequal length is no 2-d array
Ragged(rows) == \E i, j \in 1..Len(rows) : Len(rows[i]) # Len(rows[j])

\* the outlier-model detector of one family, given the training rows of its
\* window; returns the Findings and the models
OutlierFit(enough, rows, models, features, verdict, family, found) ==
    IF enough /\ Len(rows) > MinTraining
    THEN IF Ragged(rows) THEN [anomalies |-> <<>>, anomaly_models |-> models]
         ELSE IF verdict = "raise"
         THEN [anomalies |-> <<>>,
               anomaly_models |->
                   [models EXCEPT ![family] = [@ EXCEPT !.scaler = rows]]]
         ELSE [anomalies |-> IF verdict = "inlier" \/ Len(features) # Len(rows[1])
                             THEN <<>> ELSE <<found>>,
               anomaly_models |->
                   [models EXCEPT ![family] = [scaler |-> rows, model |-> rows]]]
    ELSE [anomalies |-> <<>>, anomaly_models |-> models]

SystemFinding(verdict) ==
    [type |-> "system_anomaly", severity |-> verdict,
     description |-> <<"Unusual system behavior detected by ML model">>,
     suggested_action |-> "investigate_system_resources"]

NetworkFinding(verdict) ==
    [type |-> "network_anomaly", severity |-> verdict,
     description |-> <<"Unusual network behavior detected">>,
     suggested_action |-> "check_network_connectivity"]

_detect_system_anomalies(hist, models, features, verdict) ==
    OutlierFit(Len(hist) > SystemMinHistory,
               TrainingRows(LastK(hist, SystemMinHistory), "system_metrics"),
               models, features, verdict, "system_metrics", SystemFinding(verdict))

_detect_network_anomalies(hist, models, features, verdict) ==
    OutlierFit(Len(hist) > NetworkMinHistory,
               TrainingRows(LastK(hist, NetworkMinHistory), "network_metrics"),
               models, features, verdict, "network_metrics", NetworkFinding(verdict))

ThresholdFinding(type, severity, usage, threshold, label, action) ==
    [type |-> type, severity |-> severity, value |-> usage, threshold |-> threshold,
     description |-> <<label, usage, "exceeds threshold">>,
     suggested_action |-> action]

CpuBreach(metrics_data) ==
    IF "cpu" \in DOMAIN metrics_data
    THEN LET cpu_usage == Get(metrics_data["cpu"], "usage_percent", 0)
         IN  IF cpu_usage > CpuThreshold
             THEN << ThresholdFinding("cpu_threshold_breach",
                        IF cpu_usage > CpuCritical THEN "critical" ELSE "high",
                        cpu_usage, CpuThreshold, "CPU usage",
                        "identify_cpu_intensive_processes") >>
             ELSE <<>>
    ELSE <<>>

MemoryBreach(metrics_data) ==
    IF "memory" \in DOMAIN metrics_data
    THEN LET mem_usage == Get(metrics_data["memory"], "usage_percent", 0)
         IN  IF mem_usage > MemoryThreshold
             THEN << ThresholdFinding("memory_threshold_breach",
                        IF mem_usage > MemoryCritical THEN "critical" ELSE "high",
                        mem_usage, MemoryThreshold, "Memory usage",
                        "free_memory_resources") >>
             ELSE <<>>
    ELSE <<>>

DiskBreachWith(metrics_data, critical) ==
    IF "disk" \in DOMAIN metrics_data
    THEN LET disk_usage == Get(metrics_data["disk"], "usage_percent", 0)
         IN  IF disk_usage > DiskThreshold
             THEN << ThresholdFinding("disk_threshold_breach",
                        IF disk_usage > critical THEN "critical" ELSE "high",
                        disk_usage, DiskThreshold, "Disk usage",
                        "cleanup_disk_space") >>
             ELSE <<>>
    ELSE <<>>

LatencyBreach(metrics_data) ==
    IF "network" \in DOMAIN metrics_data
    THEN LET latency == Get(metrics_data["network"], "latency_ms", 0)
         IN  IF latency > LatencyThreshold
             THEN << ThresholdFinding("network_latency_high", "medium",
                        latency, LatencyThreshold, "Network latency",
                        "check_network_connectivity") >>
             ELSE <<>>
    ELSE <<>>

\* the disk check escalating at the cpu/memory limit
_detect_threshold_anomalies_DiskAt95(metrics_data) ==
    CpuBreach(metrics_data) \o MemoryBreach(metrics_data)
        \o DiskBreachWith(metrics_data, MemoryCritical) \o LatencyBreach(metrics_data)

_detect_threshold_anomalies(metrics_data) ==
    CpuBreach(metrics_data) \o MemoryBreach(metrics_data)
        \o DiskBreachWith(metrics_data, DiskCritical) \o LatencyBreach(metrics_data)

\* the usage_percent values of the entries of a window that have the group
UsageValues(window, group) ==
    LET with == SelectSeq(window, LAMBDA entry : group \in DOMAIN entry.data)
    IN  [i \in 1..Len(with) |-> Get(with[i].data[group], "usage_percent", 0)]

\* np.polyfit(range(n), ys, 1)[0] = num / den with den > 0 for n >= 2
SlopeNum(ys) ==
    LET n == Len(ys)
    IN  n * Sum([i \in 1..n |-> (i - 1) * ys[i]]) - Sum([i \in 1..n |-> i - 1]) * Sum(ys)

SlopeDen(n) ==
    n * Sum([i \in 1..n |-> (i - 1) * (i - 1)])
        - Sum([i \in 1..n |-> i - 1]) * Sum([i \in 1..n |-> i - 1])

\* np.mean(a) > np.mean(b) + CpuJump for two slices of CpuAvgSpan integers each
RapidIncrease(cpu_values) ==
    Sum(LastK(cpu_values, CpuAvgSpan))
        > Sum(SliceFromEnd(cpu_values, CpuMinValues, CpuMinValues - CpuAvgSpan))
            + CpuJump * CpuAvgSpan

PatternFindings(cpu_values, memory_values) ==
    (IF Len(cpu_values) >= CpuMinValues /\ RapidIncrease(cpu_values)
     THEN << [type |-> "cpu_trend_anomaly", severity |-> "high",
              description |-> <<"Rapid CPU increase detected">>,
              suggested_action |-> "investigate_cpu_spike"] >>
     ELSE <<>>)
    \o
    (IF Len(memory_values) >= MemoryMinValues
        /\ SlopeNum(memory_values) > LeakSlope * SlopeDen(Len(memory_values))
     THEN << [type |-> "memory_leak_pattern", severity |-> "high",
              description |-> <<"Potential memory leak detected">>,
              suggested_action |-> "investigate_memory_leak"] >>
     ELSE <<>>)

_detect_pattern_anomalies(hist) ==
    IF Len(hist) < PatternMinHistory THEN <<>>
    ELSE PatternFindings(UsageValues(LastK(hist, CpuWindow), "cpu"),
                         UsageValues(LastK(hist, MemoryWindow), "memory"))

-----------------------------------------------------------------------------
(* AIEngine.detect_anomalies *)

Skipped(models) == [anomalies |-> <<>>, anomaly_models |-> models]

\* the threshold and pattern detectors, after both outlier-model steps
RemainingDetectors(hist1, metrics_data, sys, net) ==
    [historical_data |-> hist1, anomaly_models |-> net.anomaly_models,
     anomalies |-> sys.anomalies \o net.anomalies
                     \o _detect_threshold_anomalies(metrics_data)
                     \o _detect_pattern_anomalies(hist1),
     failedAt |-> "none"]

\* "if network_features:" and the network outlier-model detector
NetworkStep(hist1, metrics_data, netTruth, network_features, vn, sys) ==
    IF netTruth = "raise"
    THEN [historical_data |-> hist1, anomaly_models |-> sys.anomaly_models,
          anomalies |-> sys.anomalies, failedAt |-> "network_outlier_step"]
    ELSE RemainingDetectors(hist1, metrics_data, sys,
            IF netTruth = "true"
            THEN _detect_network_anomalies(hist1, sys.anomaly_models,
                                           network_features, vn)
            ELSE Skipped(sys.anomaly_models))

\* "if system_features:" and the system outlier-model detector
SystemStep(hist1, models, metrics_data, sysTruth, system_features, vs, vn) ==
    IF sysTruth = "raise"
    THEN [historical_data |-> hist1, anomaly_models |-> models,
          anomalies |-> <<>>, failedAt |-> "system_outlier_step"]
    ELSE NetworkStep(hist1, metrics_data,
            ArrayTruth(_extract_network_features(metrics_data)),
            _extract_network_features(metrics_data), vn,
            IF sysTruth = "true"
            THEN _detect_system_anomalies(hist1, models, system_features, vs)
            ELSE Skipped(models))

\* the body of the try block; failedAt names the statement that raised
DetectorPass(hist, models, metrics_data, t, vs, vn) ==
    SystemStep(DequeAppend(hist, [timestamp |-> t, data |-> metrics_data]),
               models, metrics_data,
               ArrayTruth(_extract_system_features(metrics_data)),
               _extract_system_features(metrics_data), vs, vn)

Returned(pass, propagates) ==
    [historical_data |-> pass.historical_data,
     anomaly_models |-> pass.anomaly_models,
     result |-> IF pass.failedAt = "none" THEN pass.anomalies ELSE <<>>,
     failedAt |-> pass.failedAt,
     propagated |-> propagates /\ pass.failedAt # "none"]

\* detect_anomalies without its "except Exception" clause
detect_anomalies_Uncaught(init, hist, models, metrics_data, t, vs, vn) ==
    IF ~init
    THEN [historical_data |-> hist, anomaly_models |-> models, result |-> <<>>,
          failedAt |-> "none", propagated |-> FALSE]
    ELSE Returned(DetectorPass(hist, models, metrics_data, t, vs, vn), TRUE)

\* detect_anomalies with the buffer append placed after the detectors
detect_anomalies_AppendLast(init, hist, models, metrics_data, t, vs, vn) ==
    IF ~init \/ DetectorPass(hist, models, metrics_data, t, vs, vn).failedAt # "none"
    THEN [historical_data |-> hist, anomaly_models |-> models, result |-> <<>>,
          failedAt |-> IF init
                       THEN DetectorPass(hist, models, metrics_data, t, vs, vn).failedAt
                       ELSE "none",
          propagated |-> FALSE]
    ELSE Returned(DetectorPass(hist, models, metrics_data, t, vs, vn), FALSE)

detect_anomalies(init, hist, models, metrics_data, t, vs, vn) ==
    IF ~init
    THEN [historical_data |-> hist, anomaly_models |-> models, result |-> <<>>,
          failedAt |-> "none", propagated |-> FALSE]
    ELSE Returned(DetectorPass(hist, models, metrics_data, t, vs, vn), FALSE)

-----------------------------------------------------------------------------
(* Telemetry feeds *)

Agents == {"a1", "a2"}

Usage(v) == [usage_percent |-> v]

\* one snapshot per subset of the groups, and cpu-only snapshots around the limits
FreeSnapshots ==
    { [g \in gs |-> CASE g = "cpu" -> Usage(96)
                      [] g = "memory" -> Usage(90)
                      [] g = "disk" -> Usage(99)
                      [] OTHER -> [latency_ms |-> 250]]
        : gs \in SUBSET {"cpu", "memory", "disk", "network"} }
    \cup { [g \in {"cpu"} |-> Usage(82)], [g \in {"cpu"} |-> Usage(50)],
           [g \in {"cpu"} |-> EmptyDict] }

RampLen == PatternMinHistory - 1

\* memory usage rising linearly from 10 at the first to 70 at the last of
\* RiseLen snapshots, rounded to the nearest integer
RiseAt(i) == (2 * (10 * (RiseLen - 1) + 60 * (i - 1)) + (RiseLen - 1))
                 \div (2 * (RiseLen - 1))

ScriptedSnapshot(s, i) ==
    CASE s = "ramp"  -> [cpu |-> Usage(i % 101), memory |-> Usage((7 * i) % 101)]
      [] s = "trend" -> IF i > RampLen THEN EmptyDict
                        ELSE [g \in {"cpu"} |-> Usage(IF i <= 10 THEN 10 ELSE 45)]
      [] s = "leak"  -> IF i > RampLen THEN EmptyDict
                        ELSE [g \in {"memory"} |-> Usage(10 + 3 * i)]
      [] s = "rise"  -> [g \in {"memory"} |-> Usage(RiseAt(i))]

Scripts == {"free", "ramp", "trend", "leak"}

ScriptLength(s) ==
    CASE s = "free" -> MaxFree
      [] s = "ramp" -> HistMaxLen + MaxOver
      [] s = "rise" -> RiseLen
      [] OTHER -> RampLen + MaxIdle

\* the messages the feed may deliver as its i-th
Feed(s, i) ==
    IF s = "free"
    THEN {[agent_id |-> a, data |-> d] : a \in Agents, d \in FreeSnapshots}
    ELSE {[agent_id |-> IF s = "leak" THEN "a2" ELSE "a1",
           data |-> ScriptedSnapshot(s, i)]}

\* what a datetime.now() may return: the clock never runs backwards
ClockReads(s, from) ==
    IF s = "free" THEN from .. Max(from, Min(from + 1, MaxTime)) ELSE {from + 1}

-----------------------------------------------------------------------------
(* Initial state and the engine's operations *)

NoKeys == [k \in {} |-> 0]

InitCommon ==
    /\ initialized = FALSE
    /\ historical_data = <<>>
    /\ anomaly_models = EmptyDict
    /\ active_alerts = <<>>
    /\ alert_history = <<>>
    /\ now = 0
    /\ ingested = <<>>
    /\ anomalies = <<>>
    /\ failedAt = "none"
    /\ propagated = FALSE
    /\ sent = <<>>
    /\ lastOp = "__init__"
    /\ lastRet = None
    /\ notified = <<>>
    /\ seen = NoKeys
    /\ resolvedIds = {}
    /\ resolvedAt = EmptyDict
    /\ processCalls = 0
    /\ socket = EmptyDict
    /\ accepted = <<>>
    /\ active_connections = <<>>
    /\ agent_connections = EmptyDict
    /\ task = EmptyDict
    /\ running = None

\* AIEngine.initialize, run once by lifespan
Initialize ==
    /\ ~initialized
    /\ initialized' = TRUE
    /\ anomaly_models' = FreshModels
    /\ lastOp' = "initialize"
    /\ lastArg' = None
    /\ lastRet' = None
    /\ UNCHANGED <<serverVars, historical_data, script, ingested, anomalies, failedAt,
                   propagated, sent, alertVars, now>>

\* the rest of the loop body, given what detect_anomalies returned
Broadcasts(msg, r) ==
    IF r.propagated THEN <<>>
    ELSE (IF r.result # <<>>
          THEN << [type |-> "anomaly_detected", agent_id |-> msg.agent_id,
                   anomalies |-> r.result] >>
          ELSE <<>>)
         \o << [type |-> "metrics_update", agent_id |-> msg.agent_id,
                metrics |-> msg.data] >>

Handled(msg, t, r) ==
    /\ historical_data' = r.historical_data
    /\ anomaly_models' = r.anomaly_models
    /\ anomalies' = r.result
    /\ failedAt' = r.failedAt
    /\ propagated' = r.propagated
    /\ ingested' = IF initialized THEN Append(ingested, msg.data) ELSE ingested
    /\ sent' = Broadcasts(msg, r)
    /\ now' = IF initialized THEN t ELSE now
    /\ lastOp' = "agent_message"
    /\ lastArg' = msg
    /\ lastRet' = r.result
    /\ UNCHANGED <<serverVars, initialized, script, alertVars>>

\* agent_websocket: one received message
AgentMessage(msg, t, vs, vn) ==
    Handled(msg, t, detect_anomalies(initialized, historical_data, anomaly_models,
                                     msg.data, t, vs, vn))

Receive ==
    /\ Len(ingested) < ScriptLength(script)
    /\ script = "free" \/ initialized
    /\ \E msg \in Feed(script, Len(ingested) + 1) :
       \E t \in ClockReads(script, now) :
       \E vs \in VerdictsFor(_extract_system_features(msg.data)) :
       \E vn \in VerdictsFor(_extract_network_features(msg.data)) :
          AgentMessage(msg, t, vs, vn)

InitEngine == InitCommon /\ script \in Scripts /\ lastArg = None

NextEngine == Initialize \/ Receive

SpecEngine == InitEngine /\ [][NextEngine]_vars

-----------------------------------------------------------------------------
(* The threshold detector on its own *)

\* the ways one group can appear in a snapshot: not at all, without the
\* field, or with one of the values; a choice is <<>> or <<the group's dict>>
GroupChoices(field, values) ==
    {<<>>, <<EmptyDict>>} \cup {<<[k \in {field} |-> v]>> : v \in values}

MkSnapshot(c, m, d, l) ==
    [g \in {x \in {"cpu", "memory", "disk", "network"} :
               \/ x = "cpu" /\ c # <<>>
               \/ x = "memory" /\ m # <<>>
               \/ x = "disk" /\ d # <<>>
               \/ x = "network" /\ l # <<>>}
       |-> CASE g = "cpu" -> c[1]
             [] g = "memory" -> m[1]
             [] g = "disk" -> d[1]
             [] OTHER -> l[1]]

ThresholdInputs ==
    { MkSnapshot(c, m, d, l) :
        c \in GroupChoices("usage_percent", {50, 80, 81, 82, 95, 96}),
        m \in GroupChoices("usage_percent", {85, 86, 95, 96}),
        d \in GroupChoices("usage_percent", {90, 91, 95, 96, 98, 99}),
        l \in GroupChoices("latency_ms", {200, 201}) }

InitThreshold ==
    /\ InitCommon
    /\ script = "free"
    /\ lastArg \in ThresholdInputs

ApplyThreshold ==
    /\ lastOp = "__init__"
    /\ lastOp' = "_detect_threshold_anomalies"
    /\ lastRet' = _detect_threshold_anomalies(lastArg)
    /\ UNCHANGED <<serverVars, engineVars, alertVars, now, lastArg>>

NextThreshold == ApplyThreshold

SpecThreshold == InitThreshold /\ [][NextThreshold]_vars

-----------------------------------------------------------------------------
(* The trend detector on its own *)

\* cpu usage of the i-th of n buffered samples, by shape: flat at 10, or a
\* step over the last 5 samples to 40, 41 or 45
CpuShapes == {"none", "flat", "step40", "step41", "step45"}

CpuAt(shape, i, n) ==
    IF shape = "flat" \/ i <= n - CpuAvgSpan THEN 10
    ELSE IF shape = "step40" THEN 40
    ELSE IF shape = "step41" THEN 41
    ELSE 45

\* memory usage of the i-th of n buffered samples, by shape: flat, rising by
\* 2 or by 3 per sample, or falling from 95 and then rising by 3 per sample
\* over the 10 most recent samples
MemoryShapes == {"none", "flat", "rise2", "rise3", "dip"}

MemoryAt(shape, i, n) ==
    IF shape = "flat" THEN 10
    ELSE IF shape = "rise2" THEN 10 + 2 * i
    ELSE IF shape = "rise3" THEN 10 + 3 * i
    ELSE IF i <= n - MemoryMinValues THEN 95 - 5 * i
    ELSE 10 + 3 * (i - (n - MemoryMinValues))

PatternEntry(cs, ms, i, n) ==
    [data |-> [g \in {x \in {"cpu", "memory"} :
                         \/ x = "cpu" /\ cs # "none"
                         \/ x = "memory" /\ ms # "none"}
                 |-> IF g = "cpu" THEN Usage(CpuAt(cs, i, n))
                     ELSE Usage(MemoryAt(ms, i, n))],
     timestamp |-> i]

PatternInputs ==
    { [i \in 1..n |-> PatternEntry(cs, ms, i, n)] :
        n \in MinBuffer..MaxBuffer, cs \in CpuShapes, ms \in MemoryShapes }

InitPattern ==
    /\ InitCommon
    /\ script = "free"
    /\ lastArg \in PatternInputs

\* _detect_pattern_anomalies reads self.historical_data
ApplyPattern ==
    /\ lastOp = "__init__"
    /\ lastOp' = "_detect_pattern_anomalies"
    /\ lastRet' = _detect_pattern_anomalies(lastArg)
    /\ UNCHANGED <<serverVars, engineVars, alertVars, now, lastArg>>

NextPattern == ApplyPattern

SpecPattern == InitPattern /\ [][NextPattern]_vars

-----------------------------------------------------------------------------
(* The outlier-model detectors on their own *)

Families == {"system_metrics", "network_metrics"}

GateOf(family) ==
    IF family = "system_metrics" THEN SystemMinHistory ELSE NetworkMinHistory

\* buffers whose samples all carry the cpu and network groups ("full"), of
\* which only the MinTraining most recent do ("few"), or whose samples carry
\* the cpu group alone ("cpu_only")
OutlierEntry(kind, i, n) ==
    [data |-> IF kind = "cpu_only" THEN [cpu |-> Usage(i)]
              ELSE IF kind = "full" \/ i > n - MinTraining
              THEN [cpu |-> Usage(i), network |-> [latency_ms |-> 2 * i]]
              ELSE EmptyDict,
     timestamp |-> i]

OutlierInputs ==
    { [family |-> family,
       hist |-> [i \in 1..n |-> OutlierEntry(kind, i, n)],
       metrics_data |-> [cpu |-> Usage(n), network |-> [latency_ms |-> 2 * n]]] :
        family \in Families,
        n \in UNION {(GateOf(f) - Near)..(GateOf(f) + Near) : f \in Families},
        kind \in {"full", "few", "cpu_only"} }

InitOutlier ==
    /\ InitCommon
    /\ script = "free"
    /\ lastArg \in OutlierInputs

\* one call of a detector on an engine that initialize() has set up
ApplyOutlier ==
    /\ lastOp = "__init__"
    /\ \E verdict \in Verdicts :
          lastRet' = IF lastArg.family = "system_metrics"
                     THEN _detect_system_anomalies(
                              lastArg.hist, FreshModels,
                              _extract_system_features(lastArg.metrics_data), verdict)
                     ELSE _detect_network_anomalies(
                              lastArg.hist, FreshModels,
                              _extract_network_features(lastArg.metrics_data), verdict)
    /\ lastOp' = "_detect_outlier_anomalies"
    /\ UNCHANGED <<serverVars, engineVars, alertVars, now, lastArg>>

NextOutlier == ApplyOutlier

SpecOutlier == InitOutlier /\ [][NextOutlier]_vars

-----------------------------------------------------------------------------
(* Feature extraction on its own *)

\* the fields the extractors read, in the order they read them
SystemGroups == <<"cpu", "memory", "disk">>

GroupFields(group) ==
    CASE group = "cpu" ->
            <<"usage_percent", "load_avg_1m", "load_avg_5m", "context_switches">>
      [] group = "memory" ->
            <<"usage_percent", "available_mb", "swap_usage_percent">>
      [] group = "disk" ->
            <<"usage_percent", "read_bytes_per_sec", "write_bytes_per_sec",
              "io_wait_percent">>
      [] OTHER ->
            <<"latency_ms", "packet_loss_percent", "bandwidth_usage_percent",
              "connections_count", "bytes_sent_per_sec", "bytes_recv_per_sec">>

\* a value that tells the group and the field
FieldValue(group, j) ==
    (CASE group = "cpu" -> 10 [] group = "memory" -> 20 [] group = "disk" -> 30
       [] OTHER -> 40) + j

\* the group with all its fields but the missing-th (all of them for 0; none
\* of them when missing exceeds the number of fields)
GroupLacking(group, missing) ==
    [f \in {GroupFields(group)[j] :
               j \in {i \in 1..Len(GroupFields(group)) :
                         i # missing /\ missing <= Len(GroupFields(group))}}
       |-> FieldValue(group,
                      CHOOSE j \in 1..Len(GroupFields(group)) : GroupFields(group)[j] = f)]

\* a group is absent (<<>>) or present lacking at most one field, or all
GroupVariants(group) ==
    {<<>>} \cup {<<GroupLacking(group, m)>> : m \in 0..(Len(GroupFields(group)) + 1)}

FeatureInputs ==
    { MkSnapshot(c, m, d, l) :
        c \in GroupVariants("cpu"), m \in GroupVariants("memory"),
        d \in GroupVariants("disk"), l \in GroupVariants("network") }

InitFeatures ==
    /\ InitCommon
    /\ script = "free"
    /\ lastArg \in FeatureInputs

ApplyExtract ==
    /\ lastOp = "__init__"
    /\ lastOp' = "_extract_features"
    /\ lastRet' = [system |-> _extract_system_features(lastArg),
                   network |-> _extract_network_features(lastArg)]
    /\ UNCHANGED <<serverVars, engineVars, alertVars, now, lastArg>>

NextFeatures == ApplyExtract

SpecFeatures == InitFeatures /\ [][NextFeatures]_vars

-----------------------------------------------------------------------------
(* AIEngine.system_health_check and the background loop *)

HealthComponents == <<"cpu", "memory", "disk">>

\* the critical limit, warning limit, score cost of a critical issue and of a
\* warning, per component
HealthRule(component) ==
    CASE component = "cpu" ->
            [critical |-> CpuCritical, warning |-> CpuThreshold, cost |-> 30, warn |-> 10]
      [] component = "memory" ->
            [critical |-> MemoryCritical, warning |-> MemoryThreshold, cost |-> 25,
             warn |-> 10]
      [] OTHER ->
            [critical |-> DiskCritical, warning |-> DiskThreshold, cost |-> 35, warn |-> 15]

\* the components of the dict that the checks find in the given way, in the
\* order of the checks
HealthHits(latest_data, level) ==
    SelectSeq(HealthComponents, LAMBDA c :
        /\ c \in DOMAIN latest_data
        /\ IF level = "critical"
           THEN Get(latest_data[c], "usage_percent", 0) > HealthRule(c).critical
           ELSE /\ Get(latest_data[c], "usage_percent", 0) <= HealthRule(c).critical
                /\ Get(latest_data[c], "usage_percent", 0) > HealthRule(c).warning)

HealthIssues(latest_data, level) ==
    [i \in 1..Len(HealthHits(latest_data, level)) |->
        [component |-> HealthHits(latest_data, level)[i],
         value |-> Get(latest_data[HealthHits(latest_data, level)[i]], "usage_percent", 0)]]

HealthOf(latest_data) ==
    [status |-> IF HealthHits(latest_data, "critical") # <<>> THEN "critical"
                ELSE IF HealthHits(latest_data, "warning") # <<>> THEN "warning"
                ELSE "healthy",
     critical_issues |-> HealthIssues(latest_data, "critical"),
     warnings |-> HealthIssues(latest_data, "warning"),
     overall_score |->
         100 - Sum([i \in 1..Len(HealthHits(latest_data, "critical")) |->
                       HealthRule(HealthHits(latest_data, "critical")[i]).cost])
             - Sum([i \in 1..Len(HealthHits(latest_data, "warning")) |->
                       HealthRule(HealthHits(latest_data, "warning")[i]).warn]),
     component_scores |->
         [c \in DOMAIN latest_data \cap Range(HealthComponents) |->
             Max(0, 100 - Get(latest_data[c], "usage_percent", 0))]]

InsufficientData == [status |-> "insufficient_data", critical_issues |-> <<>>]

\* a health check that reads the oldest buffered snapshot
system_health_check_Oldest(hist) ==
    IF hist = <<>> THEN InsufficientData ELSE HealthOf(hist[1].data)

system_health_check(hist) ==
    IF hist = <<>> THEN InsufficientData ELSE HealthOf(hist[Len(hist)].data)

\* snapshots around the limits of the health check
HealthSnapshots ==
    { MkSnapshot(c, m, d, <<>>) :
        c \in GroupChoices("usage_percent", {80, 81, 95, 96}),
        m \in GroupChoices("usage_percent", {85, 86, 95, 96}),
        d \in GroupChoices("usage_percent", {90, 91, 98, 99}) }

\* what the buffer may hold before the latest snapshot
EarlierSnapshots ==
    { EmptyDict,
      [cpu |-> Usage(10), memory |-> Usage(10), disk |-> Usage(10)],
      [cpu |-> Usage(99), memory |-> Usage(99), disk |-> Usage(99)] }

RECURSIVE SeqsUpTo(_, _)
SeqsUpTo(S, n) ==
    IF n = 0 THEN {<<>>}
    ELSE SeqsUpTo(S, n - 1) \cup {Append(q, x) : q \in SeqsUpTo(S, n - 1), x \in S}

HealthBuffers ==
    {<<>>} \cup
    { [i \in 1..(Len(earlier) + 1) |->
          [data |-> IF i <= Len(earlier) THEN earlier[i] ELSE latest, timestamp |-> i]] :
        earlier \in SeqsUpTo(EarlierSnapshots, MaxEarlier), latest \in HealthSnapshots }

InitHealth ==
    /\ InitCommon
    /\ script = "free"
    /\ lastArg \in HealthBuffers

\* one round of background_monitoring on an engine whose buffer is lastArg
BackgroundMonitoring ==
    /\ lastOp = "__init__"
    /\ lastOp' = "system_health_check"
    /\ lastRet' = system_health_check(lastArg)
    /\ sent' = IF system_health_check(lastArg).critical_issues # <<>>
               THEN << [type |-> "critical_alert",
                        issues |-> system_health_check(lastArg).critical_issues] >>
               ELSE <<>>
    /\ UNCHANGED <<serverVars, initialized, historical_data, anomaly_models, script, ingested,
                   anomalies, failedAt, propagated, alertVars, now, lastArg>>

NextHealth == BackgroundMonitoring

SpecHealth == InitHealth /\ [][NextHealth]_vars

-----------------------------------------------------------------------------
(* AIEngine.predict_failure *)

\* int(a / b) for b > 0: Python's int() truncates towards zero
Trunc(a, b) == IF a >= 0 THEN a \div b ELSE -((-a) \div b)

\* min(capNum / capDen, num / den) as a fraction <<numerator, denominator>>
MinRatio(capNum, capDen, num, den) ==
    IF capNum * den <= num * capDen THEN <<capNum, capDen>> ELSE <<num, den>>

\* None where a prediction dict may stand: written as the dict without keys,
\* which compares with any dict
NoPrediction == EmptyDict

NoPredictions ==
    [disk_full_prediction |-> NoPrediction,
     memory_exhaustion_prediction |-> NoPrediction,
     cpu_overload_prediction |-> NoPrediction]

\* the forecast without the "time < horizon" test
Forecast_NoHorizon(values, num, den, limit, slopeInv, horizon, capNum, capDen, gain) ==
    IF Len(values) >= PredictMinValues /\ slopeInv * num > den
    THEN [time_to_failure |-> Trunc((limit - values[Len(values)]) * den, num),
          confidence |-> MinRatio(capNum, capDen, gain * num, den),
          current_usage |-> values[Len(values)],
          trend |-> <<num, den>>]
    ELSE NoPrediction

\* the block of one resource: values are its usage history, num / den the
\* fitted slope; "slope > 1 / slopeInv", "(limit - current) / slope < horizon"
Forecast(values, num, den, limit, slopeInv, horizon, capNum, capDen, gain) ==
    IF /\ Len(values) >= PredictMinValues
       /\ slopeInv * num > den
       /\ (limit - values[Len(values)]) * den < horizon * num
    THEN [time_to_failure |-> Trunc((limit - values[Len(values)]) * den, num),
          confidence |-> MinRatio(capNum, capDen, gain * num, den),
          current_usage |-> values[Len(values)],
          trend |-> <<num, den>>]
    ELSE NoPrediction

DiskForecast(values) ==
    Forecast(values, SlopeNum(values), SlopeDen(Len(values)),
             DiskFull, DiskSlopeInv, DiskHorizon, 9, 10, DiskGain)

\* the memory block with the disk block's horizon
MemoryForecast_DiskHorizon(values) ==
    Forecast(values, SlopeNum(values), SlopeDen(Len(values)),
             MemoryExhausted, MemorySlopeInv, DiskHorizon, 17, 20, MemoryGain)

MemoryForecast(values) ==
    Forecast(values, SlopeNum(values), SlopeDen(Len(values)),
             MemoryExhausted, MemorySlopeInv, MemoryHorizon, 17, 20, MemoryGain)

predict_failure(hist, metrics_data) ==
    IF Len(hist) < PredictMinHistory THEN NoPredictions
    ELSE [disk_full_prediction |->
              IF "disk" \in DOMAIN metrics_data
              THEN DiskForecast(UsageValues(LastK(hist, PredictWindow), "disk"))
              ELSE NoPrediction,
          memory_exhaustion_prediction |->
              IF "memory" \in DOMAIN metrics_data
              THEN MemoryForecast(UsageValues(LastK(hist, PredictWindow), "memory"))
              ELSE NoPrediction,
          cpu_overload_prediction |-> NoPrediction]

-----------------------------------------------------------------------------
(* predict_failure on its own *)

\* usage of a resource in the buffered sample that is k samples old, by
\* shape: flat, falling, rising by 1 per sample up to 40, 60 or 99, creeping
\* up by 1 every third sample to 99; "sparse" has the resource in the 4 newest
\* samples only and "gaps" in every second sample
UsageShapes ==
    {"none", "flat", "fall", "rise40", "rise60", "rise99", "creep", "sparse", "gaps"}

UsageAt(shape, k) ==
    CASE shape = "flat"   -> 50
      [] shape = "fall"   -> 50 + k
      [] shape = "rise40" -> 40 - k
      [] shape = "rise60" -> 60 - k
      [] shape = "rise99" -> 99 - k
      [] shape = "creep"  -> 99 - (k \div 3)
      [] OTHER            -> 40 - k

Carries(shape, k) ==
    /\ shape # "none"
    /\ shape = "sparse" => k < PredictMinValues - 1
    /\ shape = "gaps" => k % 2 = 0

PredictEntry(ds, ms, i, n) ==
    [data |-> [g \in {x \in {"disk", "memory"} :
                         \/ x = "disk" /\ Carries(ds, n - i)
                         \/ x = "memory" /\ Carries(ms, n - i)}
                 |-> IF g = "disk" THEN Usage(UsageAt(ds, n - i))
                     ELSE Usage(UsageAt(ms, n - i))],
     timestamp |-> i]

PredictQueries ==
    { [g \in gs |-> Usage(50)] : gs \in SUBSET {"disk", "memory"} }

PredictInputs ==
    { [hist |-> [i \in 1..n |-> PredictEntry(ds, ms, i, n)], metrics_data |-> q] :
        n \in MinBuffer..MaxBuffer, ds \in UsageShapes, ms \in UsageShapes,
        q \in PredictQueries }

InitPredict ==
    /\ InitCommon
    /\ script = "free"
    /\ lastArg \in PredictInputs

\* predict_failure(metrics_data) on an engine whose buffer is lastArg.hist
ApplyPredict ==
    /\ lastOp = "__init__"
    /\ lastOp' = "predict_failure"
    /\ lastRet' = predict_failure(lastArg.hist, lastArg.metrics_data)
    /\ UNCHANGED <<serverVars, engineVars, alertVars, now, lastArg>>

NextPredict == ApplyPredict

SpecPredict == InitPredict /\ [][NextPredict]_vars

-----------------------------------------------------------------------------
(* The engine's queries between ingests *)

\* a query that takes the newest entry off the buffer it reads
BufferAfterQuery_Consumes(hist) ==
    IF hist = <<>> THEN hist ELSE SubSeq(hist, 1, Len(hist) - 1)

\* self.historical_data after a query: both queries read list(self.historical_data),
\* a copy, and assign nothing to self
BufferAfterQuery(hist) == hist

\* one round of background_monitoring: system_health_check, and a broadcast
\* of the critical issues if there are any
HealthCheck ==
    /\ lastOp' = "system_health_check"
    /\ lastArg' = None
    /\ lastRet' = system_health_check(historical_data)
    /\ historical_data' = BufferAfterQuery(historical_data)
    /\ sent' = IF system_health_check(historical_data).critical_issues # <<>>
               THEN << [type |-> "critical_alert",
                        issues |-> system_health_check(historical_data).critical_issues] >>
               ELSE <<>>
    /\ UNCHANGED <<serverVars, initialized, anomaly_models, script, ingested, anomalies,
                   failedAt, propagated, alertVars, now>>

\* AIEngine.predict_failure(metrics_data)
PredictFailure ==
    \E q \in PredictQueries :
        /\ lastOp' = "predict_failure"
        /\ lastArg' = [hist |-> historical_data, metrics_data |-> q]
        /\ lastRet' = predict_failure(historical_data, q)
        /\ historical_data' = BufferAfterQuery(historical_data)
        /\ UNCHANGED <<serverVars, initialized, anomaly_models, script, ingested, anomalies,
                       failedAt, propagated, sent, alertVars, now>>

InitQueries == InitCommon /\ script \in {"free", "rise"} /\ lastArg = None

NextQueries == Initialize \/ Receive \/ HealthCheck \/ PredictFailure

SpecQueries == InitQueries /\ [][NextQueries]_vars

-----------------------------------------------------------------------------
(* ConnectionManager and the tasks of the event loop (main.py) *)

DashSockets == {"d1", "d2"}

AgentSockets == {"w1", "w2", "w3"}

\* the {agent_id} of the path an agent socket connects to: w2 is a second
\* connection of the agent of w1
AgentIdOf(w) == IF w = "w3" THEN "a2" ELSE "a1"

\* the i-th snapshot an agent socket delivers
ServerSnapshot(w, i) ==
    [g \in {"cpu"} |-> Usage((IF w = "w1" THEN 96 ELSE IF w = "w2" THEN 50 ELSE 82) + i)]

\* whether the event loop can run another task while this one awaits: the
\* detector coroutines contain no await of their own, so awaiting them does
\* not give up the loop
Suspends_Always(awaited) == TRUE

Suspends(awaited) == awaited \in {"accept", "receive_text", "send_text", "sleep"}

\* the task that holds the event loop after t reaches an await
Holder(t, awaited) == IF Suspends(awaited) THEN None ELSE t

\* the local state of one broadcast_to_dashboards call: idx is the position
\* of the list iterator, cur the connection whose send_text is awaited; owed
\* records the dashboards that have been connected since the call began and
\* have not got the message yet
NoFrame ==
    [type |-> "none", idx |-> 0, cur |-> None, disconnected |-> <<>>,
     owed |-> {}, outcome |-> "none"]

NewFrame(message, connections, sock) ==
    [NoFrame EXCEPT !.type = message.type,
                    !.owed = {c \in Range(connections) : sock[c] = "open"},
                    !.outcome = "running"]

IdleTask ==
    [pc |-> "new", received |-> 0, data |-> EmptyDict, after |-> <<>>,
     reads |-> <<>>, queue |-> <<>>, frame |-> NoFrame, agent_id |-> None]

\* list.remove(x); the connections of a list are distinct
ListRemove(connections, x) == SelectSeq(connections, LAMBDA c : c # x)

\* "for connection in disconnected: self.active_connections.remove(connection)":
\* list.remove raises ValueError for a connection that is not in the list
RECURSIVE RemoveEach(_, _)
RemoveEach(connections, disconnected) ==
    IF disconnected = <<>> THEN [connections |-> connections, raised |-> FALSE]
    ELSE IF Head(disconnected) \notin Range(connections)
    THEN [connections |-> connections, raised |-> TRUE]
    ELSE RemoveEach(ListRemove(connections, Head(disconnected)), Tail(disconnected))

\* broadcast_to_dashboards from the iterator's next element to the next
\* await of send_text, or through the removal loop to its end
BroadcastStep(frame, connections, removed) ==
    IF frame.idx < Len(connections)
    THEN [frame |-> [frame EXCEPT !.cur = connections[frame.idx + 1], !.idx = @ + 1],
          connections |-> connections]
    ELSE [frame |-> [NoFrame EXCEPT !.type = frame.type,
                                    !.owed = frame.owed,
                                    !.outcome = IF removed.raised THEN "raised"
                                                ELSE "returned"],
          connections |-> removed.connections]

broadcast_to_dashboards(frame, connections) ==
    BroadcastStep(frame, connections, RemoveEach(connections, frame.disconnected))

\* where a task goes when its broadcasts are over: agent_websocket catches
\* only WebSocketDisconnect, background_monitoring catches every Exception
AfterBroadcasts(t, raised) ==
    IF t = "monitor" THEN "sleep" ELSE IF raised THEN "crashed" ELSE "receive"

\* the task runs on from a broadcast step: it waits in send_text, or the
\* call raised, or it returned and the next message of the queue is broadcast
RECURSIVE RunBroadcasts(_, _, _, _)
RunBroadcasts(t, tk, step, sock) ==
    IF step.frame.outcome = "running"
    THEN [task |-> [tk EXCEPT !.pc = "sending", !.frame = step.frame],
          connections |-> step.connections]
    ELSE IF step.frame.outcome = "raised"
    THEN [task |-> [tk EXCEPT !.pc = AfterBroadcasts(t, TRUE), !.frame = step.frame,
                              !.queue = <<>>],
          connections |-> step.connections]
    ELSE IF tk.queue = <<>>
    THEN [task |-> [tk EXCEPT !.pc = AfterBroadcasts(t, FALSE), !.frame = step.frame],
          connections |-> step.connections]
    ELSE RunBroadcasts(t, [tk EXCEPT !.queue = Tail(@)],
            broadcast_to_dashboards(NewFrame(Head(tk.queue), step.connections, sock),
                                    step.connections),
            sock)

\* the broadcasts of a handler that has the messages of queue to send
StartBroadcasts(t, tk, queue, connections, sock) ==
    RunBroadcasts(t, [tk EXCEPT !.queue = queue],
                  [frame |-> [NoFrame EXCEPT !.outcome = "returned"],
                   connections |-> connections], sock)

\* ConnectionManager.connect for an agent
ConnectAgent(agents, websocket, agent_id) ==
    [k \in DOMAIN agents \cup {agent_id} |->
        IF k = agent_id THEN websocket ELSE agents[k]]

Deleted(agents, agent_id) == [k \in DOMAIN agents \ {agent_id} |-> agents[k]]

\* ConnectionManager.disconnect
disconnect(connections, agents, websocket, agent_id) ==
    IF agent_id # None /\ agent_id \in DOMAIN agents
    THEN [connections |-> connections, agents |-> Deleted(agents, agent_id)]
    ELSE [connections |-> ListRemove(connections, websocket), agents |-> agents]

\* a dashboard that is gone no longer counts as connected for a whole broadcast
Left(tasks, s) ==
    [t \in DOMAIN tasks |->
        IF tasks[t].frame.outcome = "running"
        THEN [tasks[t] EXCEPT !.frame.owed = @ \ {s}] ELSE tasks[t]]

serverFrame == <<initialized, script, ingested, anomalies, failedAt, propagated,
                 sent, alertVars, lastOp, lastArg, lastRet>>

\* the sockets that connect before s does: the clients are interchangeable,
\* so d1 stands for the dashboard that connects first and w1 for the first
\* connection of agent a1
Earlier(s) == IF s = "d2" THEN {"d1"} ELSE IF s = "w2" THEN {"w1"} ELSE {}

\* dashboard_websocket up to its first receive_text
DashConnect(d) ==
    /\ running = None
    /\ d \in DOMAIN socket \cap DashSockets
    /\ socket[d] = "new"
    /\ Earlier(d) \subseteq {s \in DOMAIN socket : socket[s] # "new"}
    /\ socket' = [socket EXCEPT ![d] = "open"]
    /\ active_connections' = Append(active_connections, d)
    /\ task' = [task EXCEPT ![d].pc = "receive"]
    /\ UNCHANGED <<accepted, agent_connections, running, historical_data,
                   anomaly_models, now, serverFrame>>

\* agent_websocket up to its first receive_text
AgentConnect(w) ==
    /\ running = None
    /\ w \in DOMAIN socket \cap AgentSockets
    /\ socket[w] = "new"
    /\ Earlier(w) \subseteq {s \in DOMAIN socket : socket[s] # "new"}
    /\ socket' = [socket EXCEPT ![w] = "open"]
    /\ accepted' = Append(accepted, w)
    /\ agent_connections' = ConnectAgent(agent_connections, w, AgentIdOf(w))
    /\ task' = [task EXCEPT ![w].pc = "receive", ![w].agent_id = AgentIdOf(w)]
    /\ UNCHANGED <<active_connections, running, historical_data, anomaly_models, now,
                   serverFrame>>

\* the client of a socket goes away
Close(s) ==
    /\ running = None
    /\ s \in DOMAIN socket
    /\ socket[s] = "open"
    /\ socket' = [socket EXCEPT ![s] = "closed"]
    /\ task' = Left(task, s)
    /\ UNCHANGED <<accepted, active_connections, agent_connections, running,
                   historical_data, anomaly_models, now, serverFrame>>

\* receive_text raises WebSocketDisconnect in a handler, which calls
\* manager.disconnect(websocket) resp. manager.disconnect(websocket, agent_id)
Disconnected(s) ==
    /\ running = None
    /\ s \in DOMAIN socket
    /\ socket[s] = "closed"
    /\ task[s].pc = "receive"
    /\ active_connections'
          = disconnect(active_connections, agent_connections, s, task[s].agent_id).connections
    /\ agent_connections'
          = disconnect(active_connections, agent_connections, s, task[s].agent_id).agents
    /\ task' = [task EXCEPT ![s].pc = "done"]
    /\ UNCHANGED <<socket, accepted, running, historical_data, anomaly_models, now,
                   serverFrame>>

\* a dashboard's ping is answered by send_personal_message, which catches
\* whatever send_text raises and changes nothing
DashPing(d) ==
    /\ running = None
    /\ d \in DOMAIN socket \cap DashSockets
    /\ task[d].pc = "receive"
    /\ socket[d] = "open"
    /\ UNCHANGED vars

\* agent_websocket from a received message into detect_anomalies, to the
\* await of the system detector: the buffer append
PassAppend(w) ==
    /\ running = None
    /\ w \in DOMAIN socket \cap AgentSockets
    /\ task[w].pc = "receive"
    /\ socket[w] = "open"
    /\ task[w].received < MaxMessages
    /\ now' = now + 1
    /\ historical_data'
          = DequeAppend(historical_data,
                        [timestamp |-> now + 1,
                         data |-> ServerSnapshot(w, task[w].received + 1)])
    /\ task' = [task EXCEPT ![w].pc = "await_system",
                            ![w].received = @ + 1,
                            ![w].data = ServerSnapshot(w, task[w].received + 1),
                            ![w].after = historical_data',
                            ![w].reads = <<>>]
    /\ running' = Holder(w, "_detect_system_anomalies")
    /\ UNCHANGED <<socket, accepted, active_connections, agent_connections,
                   anomaly_models, serverFrame>>

\* the system detector reads the buffer; on to the await of the network detector
PassSystem(w) ==
    /\ running \in {None, w}
    /\ w \in DOMAIN socket \cap AgentSockets
    /\ task[w].pc = "await_system"
    /\ task' = [task EXCEPT ![w].pc = "await_network",
                            ![w].reads = Append(@, historical_data)]
    /\ running' = Holder(w, "_detect_network_anomalies")
    /\ UNCHANGED <<socket, accepted, active_connections, agent_connections,
                   historical_data, anomaly_models, now, serverFrame>>

\* the network detector reads the buffer; on to the await of the pattern detector
PassNetwork(w) ==
    /\ running \in {None, w}
    /\ w \in DOMAIN socket \cap AgentSockets
    /\ task[w].pc = "await_network"
    /\ task' = [task EXCEPT ![w].pc = "await_pattern",
                            ![w].reads = Append(@, historical_data)]
    /\ running' = Holder(w, "_detect_pattern_anomalies")
    /\ UNCHANGED <<socket, accepted, active_connections, agent_connections,
                   historical_data, anomaly_models, now, serverFrame>>

\* the handler once detect_anomalies has returned r: its broadcasts
Answered(w, r, tk) ==
    /\ anomaly_models' = r.anomaly_models
    /\ task' = [task EXCEPT ![w] =
                  StartBroadcasts(w, tk,
                      Broadcasts([agent_id |-> AgentIdOf(w), data |-> task[w].data], r),
                      active_connections, socket).task]
    /\ active_connections'
          = StartBroadcasts(w, tk,
                Broadcasts([agent_id |-> AgentIdOf(w), data |-> task[w].data], r),
                active_connections, socket).connections
    /\ socket' = IF task'[w].pc = "crashed" THEN [socket EXCEPT ![w] = "closed"]
                 ELSE socket

\* the pattern detector reads the buffer and detect_anomalies returns (the
\* locals of the pass are gone); the handler broadcasts up to its next await
PassReturn(w) ==
    /\ running \in {None, w}
    /\ w \in DOMAIN socket \cap AgentSockets
    /\ task[w].pc = "await_pattern"
    /\ \E vs \in VerdictsFor(_extract_system_features(task[w].data)) :
       \E vn \in VerdictsFor(_extract_network_features(task[w].data)) :
          Answered(w,
                   Returned(SystemStep(historical_data, anomaly_models, task[w].data,
                                ArrayTruth(_extract_system_features(task[w].data)),
                                _extract_system_features(task[w].data), vs, vn),
                            FALSE),
                   [task[w] EXCEPT !.data = EmptyDict, !.after = <<>>, !.reads = <<>>])
    /\ running' = None
    /\ UNCHANGED <<accepted, agent_connections, historical_data, now, serverFrame>>

\* what an awaited send_text did: delivered, raised, or dropped the message
SendOutcomes(state) == IF state = "open" THEN {"delivered"} ELSE {"raised", "dropped"}

Sent(frame, outcome) ==
    IF outcome = "delivered" THEN [frame EXCEPT !.owed = @ \ {frame.cur}]
    ELSE IF outcome = "raised"
    THEN [frame EXCEPT !.disconnected = Append(@, frame.cur)]
    ELSE frame

\* a task resumes from the send_text of a broadcast and runs to its next await
SendDone(t) ==
    /\ running = None
    /\ t \in DOMAIN task
    /\ task[t].pc = "sending"
    /\ \E outcome \in SendOutcomes(socket[task[t].frame.cur]) :
          /\ task' = [task EXCEPT ![t] =
                RunBroadcasts(t, task[t],
                    broadcast_to_dashboards(Sent(task[t].frame, outcome),
                                            active_connections),
                    socket).task]
          /\ active_connections'
                = RunBroadcasts(t, task[t],
                      broadcast_to_dashboards(Sent(task[t].frame, outcome),
                                              active_connections),
                      socket).connections
    /\ socket' = IF task'[t].pc = "crashed" THEN [socket EXCEPT ![t] = "closed"]
                 ELSE socket
    /\ UNCHANGED <<accepted, agent_connections, running, historical_data,
                   anomaly_models, now, serverFrame>>

\* one round of background_monitoring up to its next await
MonitorRound ==
    /\ running = None
    /\ "monitor" \in DOMAIN task
    /\ task["monitor"].pc = "sleep"
    /\ task' = [task EXCEPT !["monitor"] =
          StartBroadcasts("monitor", task["monitor"],
              IF system_health_check(historical_data).critical_issues # <<>>
              THEN << [type |-> "critical_alert",
                       issues |-> system_health_check(historical_data).critical_issues] >>
              ELSE <<>>,
              active_connections, socket).task]
    /\ active_connections'
          = StartBroadcasts("monitor", task["monitor"],
              IF system_health_check(historical_data).critical_issues # <<>>
              THEN << [type |-> "critical_alert",
                       issues |-> system_health_check(historical_data).critical_issues] >>
              ELSE <<>>,
              active_connections, socket).connections
    /\ UNCHANGED <<socket, accepted, agent_connections, running, historical_data,
                   anomaly_models, now, serverFrame>>

\* ConnectionManager.send_to_agent: True if the send went through; when
\* send_text raises, the entry of the agent id is deleted and False returned
send_to_agent(agents, agent_id, outcome) ==
    IF agent_id \notin DOMAIN agents THEN [agents |-> agents, ret |-> FALSE]
    ELSE IF outcome = "raised"
    THEN [agents |-> Deleted(agents, agent_id), ret |-> FALSE]
    ELSE [agents |-> agents, ret |-> TRUE]

\* a REST endpoint calls send_to_agent
SendToAgent(agent_id) ==
    /\ running = None
    /\ \E outcome \in IF agent_id \in DOMAIN agent_connections
                      THEN SendOutcomes(socket[agent_connections[agent_id]])
                      ELSE {"none"} :
          agent_connections' = send_to_agent(agent_connections, agent_id, outcome).agents
    /\ UNCHANGED <<socket, accepted, active_connections, task, running,
                   historical_data, anomaly_models, now, serverFrame>>

\* the server after lifespan: the engine initialized, the monitor started
InitServerWith(sockets, others) ==
    /\ initialized = TRUE
    /\ historical_data = <<>>
    /\ anomaly_models = FreshModels
    /\ active_alerts = <<>>
    /\ alert_history = <<>>
    /\ now = 0
    /\ script = "free"
    /\ ingested = <<>>
    /\ anomalies = <<>>
    /\ failedAt = "none"
    /\ propagated = FALSE
    /\ sent = <<>>
    /\ lastOp = "__init__"
    /\ lastArg = None
    /\ lastRet = None
    /\ notified = <<>>
    /\ seen = NoKeys
    /\ resolvedIds = {}
    /\ resolvedAt = EmptyDict
    /\ processCalls = 0
    /\ socket = [s \in sockets |-> "new"]
    /\ accepted = <<>>
    /\ active_connections = <<>>
    /\ agent_connections = EmptyDict
    /\ task = [t \in sockets \cup others |->
                  [IdleTask EXCEPT !.pc = IF t = "monitor" THEN "sleep" ELSE "new"]]
    /\ running = None

InitServer == InitServerWith(DashSockets \cup {"w1", "w2"}, {"monitor"})

NextServer ==
    \/ \E d \in DashSockets : DashConnect(d)
    \/ \E w \in AgentSockets : AgentConnect(w)
    \/ \E s \in DashSockets \cup AgentSockets : Close(s)
    \/ \E s \in DashSockets \cup AgentSockets : Disconnected(s)
    \/ \E d \in DashSockets : DashPing(d)
    \/ \E w \in AgentSockets : PassAppend(w)
    \/ \E w \in AgentSockets : PassSystem(w)
    \/ \E w \in AgentSockets : PassNetwork(w)
    \/ \E w \in AgentSockets : PassReturn(w)
    \/ \E t \in DashSockets \cup AgentSockets \cup {"monitor"} : SendDone(t)
    \/ MonitorRound
    \/ \E agent_id \in Agents : SendToAgent(agent_id)

SpecServer == InitServer /\ [][NextServer]_vars

\* two agents delivering snapshots, no dashboard connected
InitPasses == InitServerWith({"w1", "w3"}, {})

NextPasses ==
    \/ \E w \in AgentSockets : AgentConnect(w)
    \/ \E s \in AgentSockets : Close(s)
    \/ \E s \in AgentSockets : Disconnected(s)
    \/ \E w \in AgentSockets : PassAppend(w)
    \/ \E w \in AgentSockets : PassSystem(w)
    \/ \E w \in AgentSockets : PassNetwork(w)
    \/ \E w \in AgentSockets : PassReturn(w)

SpecPasses == InitPasses /\ [][NextPasses]_vars

-----------------------------------------------------------------------------
(* AlertManager *)

RetentionHours == 24        \* timedelta(hours=24); the clock counts hours

\* f"{alert_data['type']}_{alert_data.get('agent_id', 'unknown')}"
AlertId(alert_data) ==
    alert_data["type"] \o "_" \o Get(alert_data, "agent_id", "unknown")

HasAlert(alerts, id) == \E i \in 1..Len(alerts) : alerts[i].id = id

AlertOf(alerts, id) == alerts[CHOOSE i \in 1..Len(alerts) : alerts[i].id = id]

\* del d[id]
Without(alerts, id) == SelectSeq(alerts, LAMBDA a : a.id # id)

NewAlert(alert_data, id, t1, t2) ==
    [id |-> id,
     type |-> alert_data["type"],
     severity |-> Get(alert_data, "severity", "medium"),
     description |-> Get(alert_data, "description", ""),
     first_seen |-> t1,
     last_seen |-> t2,
     count |-> 1,
     status |-> "active",
     agent_id |-> Get(alert_data, "agent_id", None),
     suggested_action |-> Get(alert_data, "suggested_action", None)]

\* an update that only touches last_seen
BumpNoCount(alert, alert_data, t) == [alert EXCEPT !.last_seen = t]

\* an update that also takes the repeat's severity and description
BumpReclassify(alert, alert_data, t) ==
    [alert EXCEPT !.last_seen = t, !.count = @ + 1,
                  !.severity = Get(alert_data, "severity", "medium"),
                  !.description = Get(alert_data, "description", "")]

\* the "Update existing alert" branch
Bump(alert, alert_data, t) == [alert EXCEPT !.last_seen = t, !.count = @ + 1]

\* _send_notifications swallows whatever its body raises
_send_notifications(alert, outcome) ==
    IF outcome = "raise" THEN <<"failed">> ELSE <<"sent">>

Upserted(alerts, alert_data, id, t1, t2) ==
    IF HasAlert(alerts, id)
    THEN [i \in 1..Len(alerts) |->
            IF alerts[i].id = id THEN Bump(alerts[i], alert_data, t1) ELSE alerts[i]]
    ELSE Append(alerts, NewAlert(alert_data, id, t1, t2))

\* a process_alert that notifies only for the Finding that creates the alert
ProcessedWith_NotifyNewOnly(alerts, history, alert_data, id, after, t1, t2, outcome) ==
    [active_alerts |-> after,
     alert_history |-> IF HasAlert(alerts, id) THEN history
                       ELSE Append(history, NewAlert(alert_data, id, t1, t2)),
     notified |-> IF Get(alert_data, "severity", None) = "critical"
                     /\ ~HasAlert(alerts, id)
                  THEN _send_notifications(AlertOf(after, id), outcome)
                  ELSE <<>>,
     ret |-> AlertOf(after, id)]

ProcessedWith(alerts, history, alert_data, id, after, t1, t2, outcome) ==
    [active_alerts |-> after,
     alert_history |-> IF HasAlert(alerts, id) THEN history
                       ELSE Append(history, NewAlert(alert_data, id, t1, t2)),
     notified |-> IF Get(alert_data, "severity", None) = "critical"
                  THEN _send_notifications(AlertOf(after, id), outcome)
                  ELSE <<>>,
     ret |-> AlertOf(after, id)]

\* a process_alert whose handler also gets what the notification raises
process_alert_NotifyUncaught(alerts, history, alert_data, t1, t2, outcome) ==
    IF "type" \notin DOMAIN alert_data
    THEN [active_alerts |-> alerts, alert_history |-> history,
          notified |-> <<>>, ret |-> EmptyDict]
    ELSE [ProcessedWith(alerts, history, alert_data, AlertId(alert_data),
                        Upserted(alerts, alert_data, AlertId(alert_data), t1, t2),
                        t1, t2, outcome)
            EXCEPT !.ret = IF Get(alert_data, "severity", None) = "critical"
                              /\ outcome = "raise"
                           THEN EmptyDict ELSE @]

\* a Finding without 'type' raises KeyError, which process_alert catches
process_alert(alerts, history, alert_data, t1, t2, outcome) ==
    IF "type" \notin DOMAIN alert_data
    THEN [active_alerts |-> alerts, alert_history |-> history,
          notified |-> <<>>, ret |-> EmptyDict]
    ELSE ProcessedWith(alerts, history, alert_data, AlertId(alert_data),
                       Upserted(alerts, alert_data, AlertId(alert_data), t1, t2),
                       t1, t2, outcome)

\* the status and resolved_at that resolve_alert writes go to the entry it deletes
resolve_alert_AlwaysTrue(alerts, alert_id, t) ==
    [active_alerts |-> Without(alerts, alert_id), ret |-> TRUE]

resolve_alert(alerts, alert_id, t) ==
    IF HasAlert(alerts, alert_id)
    THEN [active_alerts |-> Without(alerts, alert_id), ret |-> TRUE]
    ELSE [active_alerts |-> alerts, ret |-> FALSE]

get_active_alerts(alerts) == alerts

\* self.alert_history[-limit:]
get_alert_history(history, limit) ==
    LET start == IF limit > 0
                 THEN (IF limit >= Len(history) THEN 1 ELSE Len(history) - limit + 1)
                 ELSE 1 - limit
    IN  IF start > Len(history) THEN <<>> ELSE SubSeq(history, start, Len(history))

\* a sweep that goes by an alert's age alone
cleanup_old_alerts_ByAge(alerts, t) ==
    SelectSeq(alerts, LAMBDA alert : ~(alert.last_seen < t))

cleanup_old_alerts(alerts, t) ==
    SelectSeq(alerts, LAMBDA alert :
        ~(alert.status = "resolved"
          /\ Get(alert, "resolved_at", t) < t - RetentionHours))

-----------------------------------------------------------------------------
(* The Findings handed to the Alert Manager, and its operations *)

\* Findings of two types and two sources: two classifications of one key, one
\* Finding without agent_id, one without severity and description, one without type
AlertInputs ==
    { [type |-> "cpu_threshold_breach", agent_id |-> "a1", severity |-> "critical",
       description |-> "d1", suggested_action |-> "identify_cpu_intensive_processes"],
      [type |-> "cpu_threshold_breach", agent_id |-> "a1", severity |-> "high",
       description |-> "d2", suggested_action |-> "identify_cpu_intensive_processes"],
      [type |-> "cpu_threshold_breach", severity |-> "critical", description |-> "d1"],
      [type |-> "memory_leak_pattern", agent_id |-> "a1"],
      [severity |-> "high", agent_id |-> "a1"] }

AlertIds ==
    {AlertId(d) : d \in {x \in AlertInputs : "type" \in DOMAIN x}} \cup {"no_such_alert"}

\* the identity key of a Finding: its type and its source
KeyOf(alert_data) == <<alert_data["type"], Get(alert_data, "agent_id", "unknown")>>

Counted(alert_data, at) ==
    IF "type" \notin DOMAIN alert_data THEN seen
    ELSE [k \in DOMAIN seen \cup {KeyOf(alert_data)} |->
            IF k = KeyOf(alert_data)
            THEN [n |-> (IF k \in DOMAIN seen THEN seen[k].n ELSE 0) + 1, at |-> at]
            ELSE seen[k]]

Processed(alert_data, t, r) ==
    /\ active_alerts' = r.active_alerts
    /\ alert_history' = r.alert_history
    /\ notified' = r.notified
    /\ lastRet' = r.ret
    /\ lastOp' = "process_alert"
    /\ lastArg' = alert_data
    /\ seen' = Counted(alert_data, t)
    /\ now' = t
    /\ processCalls' = processCalls + 1
    /\ UNCHANGED <<serverVars, engineVars, resolvedIds, resolvedAt>>

ProcessAlert ==
    /\ processCalls < MaxProcess
    /\ \E alert_data \in AlertInputs :
       \E t1 \in ClockReads(script, now) :
       \E t2 \in ClockReads(script, t1) :
       \E outcome \in {"ok", "raise"} :
          Processed(alert_data,
                    IF "type" \notin DOMAIN alert_data THEN now
                    ELSE IF HasAlert(active_alerts, AlertId(alert_data)) THEN t1 ELSE t2,
                    process_alert(active_alerts, alert_history, alert_data,
                                  t1, t2, outcome))

Resolved(alert_id, t, r) ==
    /\ active_alerts' = r.active_alerts
    /\ lastRet' = r.ret
    /\ lastOp' = "resolve_alert"
    /\ lastArg' = alert_id
    /\ now' = IF r.ret THEN t ELSE now
    /\ resolvedIds' = IF r.ret THEN resolvedIds \cup {alert_id} ELSE resolvedIds
    /\ resolvedAt' = IF r.ret
                     THEN [k \in DOMAIN resolvedAt \cup {alert_id} |->
                             IF k = alert_id THEN t ELSE resolvedAt[k]]
                     ELSE resolvedAt
    /\ UNCHANGED <<serverVars, engineVars, alert_history, notified, seen, processCalls>>

ResolveAlert ==
    \E alert_id \in AlertIds :
    \E t \in ClockReads(script, now) :
        Resolved(alert_id, t, resolve_alert(active_alerts, alert_id, t))

GetActiveAlerts ==
    /\ lastOp' = "get_active_alerts"
    /\ lastArg' = None
    /\ lastRet' = get_active_alerts(active_alerts)
    /\ UNCHANGED <<serverVars, engineVars, alertVars, now>>

GetAlertHistory ==
    \E limit \in 0..2 :
        /\ lastOp' = "get_alert_history"
        /\ lastArg' = limit
        /\ lastRet' = get_alert_history(alert_history, limit)
        /\ UNCHANGED <<serverVars, engineVars, alertVars, now>>

CleanupOldAlerts ==
    \E t \in ClockReads(script, now) :
        /\ active_alerts' = cleanup_old_alerts(active_alerts, t)
        /\ now' = t
        /\ lastOp' = "cleanup_old_alerts"
        /\ lastArg' = None
        /\ lastRet' = None
        /\ UNCHANGED <<serverVars, engineVars, alert_history, notified, seen, resolvedIds, resolvedAt,
                       processCalls>>

InitAlerts == InitCommon /\ script = "free" /\ lastArg = None

NextAlerts ==
    \/ ProcessAlert
    \/ ResolveAlert
    \/ GetActiveAlerts
    \/ GetAlertHistory
    \/ CleanupOldAlerts

SpecAlerts == InitAlerts /\ [][NextAlerts]_vars

-----------------------------------------------------------------------------
(* The Alert Manager over more than a day *)

\* the background loop sleeps until more than the retention time has gone by
DayPasses ==
    /\ now < MaxDays * (RetentionHours + 1)
    /\ now' = now + RetentionHours + 1
    /\ lastOp' = "sleep"
    /\ lastArg' = None
    /\ lastRet' = None
    /\ UNCHANGED <<serverVars, engineVars, alertVars>>

NextSweep ==
    \/ ProcessAlert
    \/ ResolveAlert
    \/ CleanupOldAlerts
    \/ DayPasses

SpecSweep == InitAlerts /\ [][NextSweep]_vars

-----------------------------------------------------------------------------
(* Claims about the telemetry buffer and detect_anomalies (SpecEngine) *)

Snapshots(hist) == [i \in 1..Len(hist) |-> hist[i].data]

\* C1: the buffer never holds more than 1000 entries, and it holds exactly the
\* last 1000 snapshots ingested by the initialized engine (all of them while
\* fewer were ingested), oldest first.
C1_BufferHoldsLastN ==
    /\ Len(historical_data) <= 1000
    /\ Snapshots(historical_data) = LastK(ingested, 1000)

\* more than 1000 snapshots were ingested and the oldest ones are gone
C1_Witness ==
    /\ Len(ingested) > 1001
    /\ Len(historical_data) = 1000
    /\ historical_data[1].data = ingested[Len(ingested) - 999]
    /\ historical_data[1].data # ingested[1]

\* a detect_anomalies pass of the initialized engine just returned
PassReturned == lastOp = "agent_message" /\ initialized

\* C3: the list detect_anomalies returns for a snapshot contains every Finding
\* that the threshold detector and the trend detector produce for it.
C3_IngestReturnsAllFindings ==
    PassReturned =>
        \A f \in Range(_detect_threshold_anomalies(lastArg.data))
                   \cup Range(_detect_pattern_anomalies(historical_data)) :
            f \in Range(lastRet)

\* C4: when the outlier-model step of a pass fails, the Findings of the other
\* detectors for the same snapshot are still returned.
C4_DetectorFailureIsolated ==
    (PassReturned /\ failedAt \in {"system_outlier_step", "network_outlier_step"}) =>
        /\ Len(lastRet) >= Len(_detect_threshold_anomalies(lastArg.data))
        /\ \A i \in 1..Len(_detect_threshold_anomalies(lastArg.data)) :
              \E j \in 1..Len(lastRet) :
                  lastRet[j] = _detect_threshold_anomalies(lastArg.data)[i]

\* C5: detect_anomalies never lets an exception reach its caller; it returns a
\* list of Findings, and the handler goes on to broadcast the metrics.
C5_NoExceptionPropagates ==
    lastOp = "agent_message" =>
        /\ ~propagated
        /\ \A i \in 1..Len(lastRet) : "type" \in DOMAIN lastRet[i]
        /\ \E i \in 1..Len(sent) : sent[i].type = "metrics_update"

\* a pass in which a step raised, and the caller got the empty list
C5_Witness ==
    /\ PassReturned
    /\ failedAt # "none"
    /\ ~propagated
    /\ lastRet = <<>>
    /\ "cpu" \in DOMAIN lastArg.data
    /\ "usage_percent" \notin DOMAIN lastArg.data["cpu"]

\* C6: every Finding that is broadcast as detected has, by then, an active
\* alert under the identity key of its type and the snapshot's source.
C6_FindingsReachAlertManager ==
    \A i \in 1..Len(sent) :
        sent[i].type = "anomaly_detected" =>
            \A f \in Range(sent[i].anomalies) :
                HasAlert(get_active_alerts(active_alerts),
                         AlertId([type |-> f.type, agent_id |-> sent[i].agent_id]))

-----------------------------------------------------------------------------
(* Claim about the threshold detector (SpecThreshold) *)

Applied == lastOp = "_detect_threshold_anomalies"

\* the Findings of one type in a detector's output
OfType(findings, type) == SelectSeq(findings, LAMBDA f : f.type = type)

\* the value a metric has for the threshold detector: -1 when its group is absent
Metric(metrics_data, group, field) ==
    IF group \in DOMAIN metrics_data THEN Get(metrics_data[group], field, 0) ELSE -1

\* one metric's part of C2
OneFindingIff(findings, type, usage, limit, severity) ==
    /\ Len(OfType(findings, type)) = (IF usage > limit THEN 1 ELSE 0)
    /\ \A f \in Range(OfType(findings, type)) : f.severity = severity

\* C2: the threshold detector emits exactly one Finding per breached metric and
\* none otherwise: cpu > 80 (critical above 95, else high), memory > 85
\* (critical above 95, else high), disk > 90 (critical above 98, else high),
\* network latency > 200 (medium).
C2_ThresholdFindings ==
    Applied =>
        LET cpu == Metric(lastArg, "cpu", "usage_percent")
            mem == Metric(lastArg, "memory", "usage_percent")
            disk == Metric(lastArg, "disk", "usage_percent")
            latency == Metric(lastArg, "network", "latency_ms")
        IN  /\ OneFindingIff(lastRet, "cpu_threshold_breach", cpu, 80,
                             IF cpu > 95 THEN "critical" ELSE "high")
            /\ OneFindingIff(lastRet, "memory_threshold_breach", mem, 85,
                             IF mem > 95 THEN "critical" ELSE "high")
            /\ OneFindingIff(lastRet, "disk_threshold_breach", disk, 90,
                             IF disk > 98 THEN "critical" ELSE "high")
            /\ OneFindingIff(lastRet, "network_latency_high", latency, 200, "medium")
            /\ \A f \in Range(lastRet) :
                  f.type \in {"cpu_threshold_breach", "memory_threshold_breach",
                              "disk_threshold_breach", "network_latency_high"}

\* cpu at 96 and disk at 96 breach together: one critical and one high Finding
C2_Witness ==
    /\ Applied
    /\ Metric(lastArg, "cpu", "usage_percent") = 96
    /\ Metric(lastArg, "disk", "usage_percent") = 96
    /\ Metric(lastArg, "memory", "usage_percent") = 85
    /\ Len(lastRet) = 2
    /\ lastRet[1].severity = "critical"
    /\ lastRet[2].severity = "high"

-----------------------------------------------------------------------------
(* Claims about the Alert Manager (SpecAlerts) *)

listActive == get_active_alerts(active_alerts)

listHistory == get_alert_history(alert_history, 100)

\* the source an alert was created for
SourceOf(alert) == IF alert.agent_id = None THEN "unknown" ELSE alert.agent_id

\* the active alerts of one identity key
ActiveFor(k) ==
    SelectSeq(listActive, LAMBDA a : a.type = k[1] /\ SourceOf(a) = k[2])

\* C7: while nothing has been resolved, the active list holds exactly one alert
\* for each identity key (type, source) that process_alert has seen and no
\* other alert; the alert's count is the number of Findings processed with its
\* key, and its last-seen is the time of the latest of them.
C7_OneAlertPerKey ==
    resolvedIds = {} =>
        /\ \A k \in DOMAIN seen :
              /\ Len(ActiveFor(k)) = 1
              /\ ActiveFor(k)[1].count = seen[k].n
              /\ ActiveFor(k)[1].last_seen = seen[k].at
        /\ \A a \in Range(listActive) : <<a.type, SourceOf(a)>> \in DOMAIN seen
        /\ Len(listActive) = Cardinality(DOMAIN seen)

\* two Findings with one key were processed and nothing was resolved: one
\* alert, count 2, last-seen later than first-seen
C7_Witness ==
    /\ resolvedIds = {}
    /\ processCalls = 2
    /\ lastOp = "process_alert"
    /\ Len(listActive) = 1
    /\ listActive[1].count = 2
    /\ listActive[1].last_seen > listActive[1].first_seen

\* C8: after a successful resolve the alert is not active any more, and the
\* history lists the alert of that key with status resolved and resolved-at set.
C8_ResolvedMovesToHistory ==
    (lastOp = "resolve_alert" /\ lastRet = TRUE) =>
        /\ ~HasAlert(listActive, lastArg)
        /\ \E i \in 1..Len(listHistory) :
              /\ listHistory[i].id = lastArg
              /\ listHistory[i].status = "resolved"
              /\ "resolved_at" \in DOMAIN listHistory[i]

\* C9: resolve returns true exactly when the key is active at the call, and
\* then the key is active no more; when it returns false (the key was resolved
\* before, or never created) the active set and the history stay as they were.
C9_ResolveTrueIffActive ==
    [][lastOp' = "resolve_alert" =>
          /\ lastRet' = HasAlert(active_alerts, lastArg')
          /\ lastRet' = TRUE => ~HasAlert(active_alerts', lastArg')
          /\ lastRet' = FALSE =>
                /\ active_alerts' = active_alerts
                /\ alert_history' = alert_history]_vars

\* a key that was resolved before is resolved again: false, while another
\* alert is still active
C9_Witness ==
    /\ lastOp = "resolve_alert"
    /\ lastRet = FALSE
    /\ lastArg \in resolvedIds
    /\ ~HasAlert(active_alerts, lastArg)
    /\ \E i \in 1..Len(alert_history) : alert_history[i].id = lastArg
    /\ Len(active_alerts) = 1

\* C10: a process_alert call leaves every alert that was active before it
\* active, and changes nothing of it but last-seen and count: severity,
\* description, type, first-seen and status stay as the creating Finding set
\* them.  The alert of the call's key gets count + 1 and the call's time.
C10_FirstClassificationWins ==
    [][processCalls' = processCalls + 1 =>
          \A i \in 1..Len(active_alerts) :
              /\ i <= Len(active_alerts')
              /\ active_alerts'[i].id = active_alerts[i].id
              /\ active_alerts'[i].type = active_alerts[i].type
              /\ active_alerts'[i].severity = active_alerts[i].severity
              /\ active_alerts'[i].description = active_alerts[i].description
              /\ active_alerts'[i].first_seen = active_alerts[i].first_seen
              /\ active_alerts'[i].status = active_alerts[i].status
              /\ active_alerts'[i].agent_id = active_alerts[i].agent_id
              /\ active_alerts'[i].suggested_action = active_alerts[i].suggested_action
              /\ IF "type" \in DOMAIN lastArg' /\ AlertId(lastArg') = active_alerts[i].id
                 THEN /\ active_alerts'[i].count = active_alerts[i].count + 1
                      /\ active_alerts'[i].last_seen = now'
                 ELSE active_alerts'[i] = active_alerts[i]]_vars

\* an alert created as critical got a repeat Finding that says high, with
\* another description: it still says critical
C10_Witness ==
    /\ lastOp = "process_alert"
    /\ "type" \in DOMAIN lastArg
    /\ HasAlert(active_alerts, AlertId(lastArg))
    /\ AlertOf(active_alerts, AlertId(lastArg)).count = 2
    /\ AlertOf(active_alerts, AlertId(lastArg)).severity = "critical"
    /\ lastArg["severity"] = "high"
    /\ AlertOf(active_alerts, AlertId(lastArg)).description # lastArg["description"]

\* C11: a step takes an active alert out of the active set, or changes its
\* status, only if it is a successful resolve_alert of that alert's own key;
\* process_alert, get_active_alerts, get_alert_history, cleanup_old_alerts and
\* a resolve of another key leave it active.
C11_OnlyResolveRemoves ==
    [][\A i \in 1..Len(active_alerts) :
          \/ /\ lastOp' = "resolve_alert"
             /\ lastArg' = active_alerts[i].id
             /\ lastRet' = TRUE
          \/ /\ HasAlert(active_alerts', active_alerts[i].id)
             /\ AlertOf(active_alerts', active_alerts[i].id).status
                    = active_alerts[i].status]_vars

\* a sweep ran an hour after an alert was last seen, another key having been
\* resolved: the alert is still active
C11_Witness ==
    /\ lastOp = "cleanup_old_alerts"
    /\ resolvedIds # {}
    /\ Len(active_alerts) = 1
    /\ active_alerts[1].id \notin resolvedIds
    /\ active_alerts[1].status = "active"
    /\ active_alerts[1].last_seen < now

\* the ids of the alerts that were resolved longer ago than the retention
\* time and have not come back since
LongResolved ==
    {id \in DOMAIN resolvedAt :
        ~HasAlert(active_alerts, id) /\ resolvedAt[id] < now - RetentionHours}

\* C12: after a sweep the Alert Manager stores, neither in the active map nor
\* in the history, an alert that was resolved more than 24 hours before.
C12_SweepPurgesOldResolved ==
    lastOp = "cleanup_old_alerts" =>
        \A id \in LongResolved :
            /\ ~HasAlert(active_alerts, id)
            /\ \A i \in 1..Len(alert_history) : alert_history[i].id # id

\* a process_alert call for a Finding that has a type just returned
ProcessedFinding == lastOp = "process_alert" /\ "type" \in DOMAIN lastArg

\* C13: a process_alert call makes exactly one _send_notifications call when
\* its Finding has severity critical, whether the Finding creates the alert or
\* repeats an active one, and none when the Finding has any other severity.
C13_CriticalNotifiesOnce ==
    ProcessedFinding =>
        Len(notified) = (IF Get(lastArg, "severity", None) = "critical" THEN 1 ELSE 0)

\* a critical Finding repeated an alert that a high Finding had created: one
\* notification, and the alert still says high
C13_Witness ==
    /\ ProcessedFinding
    /\ Get(lastArg, "severity", None) = "critical"
    /\ lastRet.count = 2
    /\ lastRet.severity = "high"
    /\ Len(notified) = 1

\* C14: when the notification of a critical Finding fails, process_alert has
\* still created or updated the alert of the Finding's key, with count and
\* last-seen applied, and returns that alert.
C14_NotificationFailureSwallowed ==
    (ProcessedFinding /\ notified = <<"failed">>) =>
        /\ HasAlert(active_alerts, AlertId(lastArg))
        /\ lastRet = AlertOf(active_alerts, AlertId(lastArg))
        /\ lastRet.last_seen = now
        /\ lastRet.count >= 1
        /\ AlertId(lastArg) \notin resolvedIds => lastRet.count = seen[KeyOf(lastArg)].n

\* the notification failed for a critical Finding that repeated an alert: the
\* alert has count 2 and the later time
C14_Witness ==
    /\ ProcessedFinding
    /\ notified = <<"failed">>
    /\ lastRet.count = 2
    /\ lastRet.last_seen > lastRet.first_seen
    /\ lastRet = AlertOf(active_alerts, AlertId(lastArg))

-----------------------------------------------------------------------------
(* Claims about the trend detector (SpecPattern) *)

PatternApplied == lastOp = "_detect_pattern_anomalies"

\* the usage values of the buffered samples that carry a group, oldest first
Carried(hist, group) == UsageValues(hist, group)

\* C15: when the buffer holds at least 15 samples carrying cpu usage, the
\* trend detector emits one high cpu_trend_anomaly Finding exactly when the
\* mean of the 5 most recent cpu values exceeds the mean of the values ranked
\* 11th to 15th back by more than 30 (sums of 5 values: by more than 150).
C15_CpuTrendFromFifteenSamples ==
    (PatternApplied /\ Len(Carried(lastArg, "cpu")) >= 15) =>
        /\ Len(OfType(lastRet, "cpu_trend_anomaly"))
              = (IF Sum(LastK(Carried(lastArg, "cpu"), 5))
                      > Sum(SliceFromEnd(Carried(lastArg, "cpu"), 15, 10)) + 150
                 THEN 1 ELSE 0)
        /\ \A f \in Range(OfType(lastRet, "cpu_trend_anomaly")) : f.severity = "high"

\* the least-squares slope over the k most recent values exceeds limit
SlopeOverLastExceeds(values, k, limit) ==
    SlopeNum(LastK(values, k)) > limit * SlopeDen(k)

\* C16: when the buffer holds at least 10 samples carrying memory usage, the
\* trend detector emits one high memory_leak_pattern Finding exactly when the
\* least-squares slope over the 10 most recent memory values exceeds 2; with
\* fewer than 10 such samples it emits none.
C16_MemoryLeakFromTenSamples ==
    PatternApplied =>
        /\ Len(OfType(lastRet, "memory_leak_pattern"))
              = (IF Len(Carried(lastArg, "memory")) >= 10
                    /\ SlopeOverLastExceeds(Carried(lastArg, "memory"), 10, 2)
                 THEN 1 ELSE 0)
        /\ \A f \in Range(OfType(lastRet, "memory_leak_pattern")) : f.severity = "high"

-----------------------------------------------------------------------------
(* Claim about the outlier-model detectors (SpecOutlier) *)

OutlierApplied == lastOp = "_detect_outlier_anomalies"

\* the minimum history depth the detectors are to act from
StatedGate(family) == IF family = "system_metrics" THEN 50 ELSE 30

\* a detector call has fitted its family's scaler
Refitted(models, family) == models[family].scaler # Unfit.scaler

\* C17: a detector call refits its model, on the family's rows of the last 50
\* (system) or 30 (network) buffered samples, if and only if the buffer holds
\* at least that many samples; below the minimum it emits nothing and leaves
\* the model state as it was.
C17_OutlierHistoryGate ==
    OutlierApplied =>
        /\ Refitted(lastRet.anomaly_models, lastArg.family)
              <=> Len(lastArg.hist) >= StatedGate(lastArg.family)
        /\ Refitted(lastRet.anomaly_models, lastArg.family) =>
              lastRet.anomaly_models[lastArg.family].scaler
                  = TrainingRows(LastK(lastArg.hist, StatedGate(lastArg.family)),
                                 lastArg.family)
        /\ Len(lastArg.hist) < StatedGate(lastArg.family) =>
              /\ lastRet.anomalies = <<>>
              /\ lastRet.anomaly_models = FreshModels

-----------------------------------------------------------------------------
(* Claims about feature extraction (SpecFeatures) *)

ExtractApplied == lastOp = "_extract_features"

\* the (group, field) of each position of a family's vector
Layout(groups) ==
    Flatten([g \in 1..Len(groups) |->
                [j \in 1..Len(GroupFields(groups[g])) |->
                    <<groups[g], GroupFields(groups[g])[j]>>]])

\* the vector holds, at every position of the layout, the snapshot's value of
\* the field, or 0 where the snapshot lacks the group or the field
FollowsLayout(features, metrics_data, groups) ==
    /\ Len(features) = Len(Layout(groups))
    /\ \A p \in 1..Len(Layout(groups)) :
          features[p] = IF Layout(groups)[p][1] \in DOMAIN metrics_data
                        THEN Get(metrics_data[Layout(groups)[p][1]],
                                 Layout(groups)[p][2], 0)
                        ELSE 0

\* C18: for either family, a snapshot without any group of the family gives
\* no vector; a snapshot with the whole family gives a vector in which the
\* position of a missing field holds 0 and every other position holds the
\* snapshot's value of its field.
C18_MissingFieldIsZero ==
    ExtractApplied =>
        /\ DOMAIN lastArg \cap Range(SystemGroups) = {} => lastRet.system = NoFeatures
        /\ "network" \notin DOMAIN lastArg => lastRet.network = NoFeatures
        /\ Range(SystemGroups) \subseteq DOMAIN lastArg =>
              FollowsLayout(lastRet.system, lastArg, SystemGroups)
        /\ "network" \in DOMAIN lastArg =>
              FollowsLayout(lastRet.network, lastArg, <<"network">>)

\* a snapshot with all groups that lacks memory.available_mb and
\* network.latency_ms: 0 at positions 6 and 1, the field values elsewhere
C18_Witness ==
    /\ ExtractApplied
    /\ DOMAIN lastArg = {"cpu", "memory", "disk", "network"}
    /\ DOMAIN lastArg["memory"] = {"usage_percent", "swap_usage_percent"}
    /\ "latency_ms" \notin DOMAIN lastArg["network"]
    /\ lastRet.system = <<11, 12, 13, 14, 21, 0, 23, 31, 32, 33, 34>>
    /\ lastRet.network = <<0, 42, 43, 44, 45, 46>>

\* C19: every vector of a family has the family's fixed length and the same
\* field at each position, whichever groups the snapshot has: 11 positions
\* for the system family, 6 for the network family.
C19_FixedLengthVectors ==
    ExtractApplied =>
        /\ lastRet.system # NoFeatures =>
              /\ Len(lastRet.system) = 11
              /\ FollowsLayout(lastRet.system, lastArg, SystemGroups)
        /\ lastRet.network # NoFeatures =>
              /\ Len(lastRet.network) = 6
              /\ FollowsLayout(lastRet.network, lastArg, <<"network">>)

-----------------------------------------------------------------------------
(* Claim about system_health_check (SpecHealth) *)

HealthChecked == lastOp = "system_health_check"

\* the latest buffered snapshot
Latest(hist) == hist[Len(hist)].data

\* C20: the health check of an empty buffer reports insufficient_data;
\* otherwise its status is critical exactly when the latest buffered snapshot
\* has cpu > 95 or memory > 95 or disk > 98, else warning exactly when it has
\* cpu > 80 or memory > 85 or disk > 90, else healthy, and the whole result is
\* the one for a buffer holding the latest snapshot alone.
C20_HealthFromLatestSnapshot ==
    HealthChecked =>
        IF lastArg = <<>> THEN lastRet.status = "insufficient_data"
        ELSE /\ lastRet.status =
                   (IF \/ Metric(Latest(lastArg), "cpu", "usage_percent") > 95
                       \/ Metric(Latest(lastArg), "memory", "usage_percent") > 95
                       \/ Metric(Latest(lastArg), "disk", "usage_percent") > 98
                    THEN "critical"
                    ELSE IF \/ Metric(Latest(lastArg), "cpu", "usage_percent") > 80
                            \/ Metric(Latest(lastArg), "memory", "usage_percent") > 85
                            \/ Metric(Latest(lastArg), "disk", "usage_percent") > 90
                    THEN "warning"
                    ELSE "healthy")
             /\ lastRet = HealthOf(Latest(lastArg))

\* the buffer holds a snapshot with everything at 99 and then one with cpu 81,
\* memory 85 and disk 90: warning, for the cpu alone
C20_Witness ==
    /\ HealthChecked
    /\ Len(lastArg) = 2
    /\ lastArg[1].data = [cpu |-> Usage(99), memory |-> Usage(99), disk |-> Usage(99)]
    /\ Latest(lastArg) = [cpu |-> Usage(81), memory |-> Usage(85), disk |-> Usage(90)]
    /\ lastRet.status = "warning"
    /\ Len(lastRet.warnings) = 1
    /\ lastRet.overall_score = 90

-----------------------------------------------------------------------------
(* Claims about predict_failure (SpecPredict) *)

PredictApplied == lastOp = "predict_failure"

\* the window predict_failure fits over: the usage values of a resource in
\* the 10 most recent buffer entries
Recent(hist, group) == UsageValues(LastK(hist, 10), group)

\* the slope fitted over the values is positive and reaches the limit from
\* the newest value in fewer than horizon sample-intervals
DueWithin(values, limit, horizon) ==
    /\ Len(values) \in 5..10
    /\ SlopeNum(values) > 0
    /\ (limit - values[Len(values)]) * SlopeDen(Len(values))
          < horizon * SlopeNum(values)

AtMost(ratio, capNum, capDen) == ratio[1] * capDen <= capNum * ratio[2]

\* C22: predict_failure reports a prediction for a resource only if the
\* slope fitted over its most recent 5 to 10 buffered usage values is positive
\* and the extrapolated time to the failure threshold (100 for disk, 95 for
\* memory) is below the horizon (100 sample-intervals for disk, 50 for
\* memory); otherwise the prediction is none.  The confidence never exceeds
\* 0.9 (disk) / 0.85 (memory).
C22_PredictionOnlyWhenDue ==
    PredictApplied =>
        /\ lastRet.disk_full_prediction # NoPrediction =>
              /\ DueWithin(Recent(lastArg.hist, "disk"), 100, 100)
              /\ AtMost(lastRet.disk_full_prediction.confidence, 9, 10)
        /\ lastRet.memory_exhaustion_prediction # NoPrediction =>
              /\ DueWithin(Recent(lastArg.hist, "memory"), 95, 50)
              /\ AtMost(lastRet.memory_exhaustion_prediction.confidence, 85, 100)

\* both resources rise by 1 per sample to 40: disk is due in 60 intervals and
\* predicted, memory would be due in 55 and is not
C22_Witness ==
    /\ PredictApplied
    /\ lastRet.disk_full_prediction # NoPrediction
    /\ lastRet.disk_full_prediction.time_to_failure = 60
    /\ lastRet.memory_exhaustion_prediction = NoPrediction
    /\ "memory" \in DOMAIN lastArg.metrics_data
    /\ Len(Recent(lastArg.hist, "memory")) = 10
    /\ SlopeNum(Recent(lastArg.hist, "memory")) > 0
    /\ ~DueWithin(Recent(lastArg.hist, "memory"), 95, 50)

\* C28: every prediction predict_failure returns has time_to_failure >= 0,
\* for every buffer with usage values in 0..100, also when the current usage
\* already exceeds the failure threshold.
C28_TimeToFailureNonNegative ==
    PredictApplied =>
        \A k \in DOMAIN lastRet :
            lastRet[k] # NoPrediction => lastRet[k].time_to_failure >= 0

-----------------------------------------------------------------------------
(* Claims about the queries between ingests (SpecQueries) *)

Queried == lastOp' \in {"system_health_check", "predict_failure"}

\* C21: system_health_check and predict_failure are side-effect free: a call
\* leaves the telemetry buffer (contents and length), the detector models and
\* the Alert Manager state unchanged, so the buffer and what the ingests
\* return are those of the ingests alone.
C21_QueriesLeaveStateAlone ==
    [][Queried =>
          UNCHANGED <<initialized, historical_data, anomaly_models, ingested,
                      anomalies, active_alerts, alert_history>>]_vars

\* a prediction was computed from a buffer of ten or more snapshots, and the
\* buffer still holds every snapshot ingested
C21_Witness ==
    /\ lastOp = "predict_failure"
    /\ lastRet.memory_exhaustion_prediction # NoPrediction
    /\ Len(historical_data) >= 10
    /\ Snapshots(historical_data) = ingested
    /\ lastArg.hist = historical_data

\* predict_failure for memory was called during the rising feed with at least
\* 10 samples buffered
RisingQueried ==
    /\ script = "rise"
    /\ lastOp = "predict_failure"
    /\ "memory" \in DOMAIN lastArg.metrics_data
    /\ Len(lastArg.hist) >= 10

\* C23 as stated: while 60 snapshots whose memory usage rises linearly from
\* 10 to 70 are ingested, predict_failure reports a memory prediction with a
\* positive trend at every point at which at least 10 samples are buffered.
C23_RisingMemoryAlwaysPredicted ==
    RisingQueried =>
        /\ lastRet.memory_exhaustion_prediction # NoPrediction
        /\ lastRet.memory_exhaustion_prediction.trend[1] > 0

\* C23, amended: at every such point the fitted slope exceeds 0.5 per sample,
\* and a memory prediction is reported exactly when 95% is less than 50
\* sample-intervals away at that slope; this is so after the last snapshot.
C23_RisingMemoryPredictedWhenDue ==
    RisingQueried =>
        /\ 2 * SlopeNum(Recent(lastArg.hist, "memory"))
              > SlopeDen(Len(Recent(lastArg.hist, "memory")))
        /\ lastRet.memory_exhaustion_prediction # NoPrediction
              <=> DueWithin(Recent(lastArg.hist, "memory"), 95, 50)
        /\ lastRet.memory_exhaustion_prediction # NoPrediction
              => lastRet.memory_exhaustion_prediction.trend[1] > 0
        /\ Len(lastArg.hist) = RiseLen
              => lastRet.memory_exhaustion_prediction # NoPrediction

\* the prediction after the last snapshot of the rising feed
C23_Witness ==
    /\ RisingQueried
    /\ Len(lastArg.hist) = RiseLen
    /\ lastRet.memory_exhaustion_prediction # NoPrediction
    /\ lastRet.memory_exhaustion_prediction.current_usage = 70
    /\ lastRet.memory_exhaustion_prediction.time_to_failure \in 20..30

-----------------------------------------------------------------------------
(* Claim about the buffer append of detect_anomalies (SpecEngine) *)

\* the buffer after one more entry: the entries kept are the newest ones
AppendedOnce(before, after, metrics_data) ==
    /\ Len(after) = Min(Len(before) + 1, 1000)
    /\ after[Len(after)].data = metrics_data
    /\ SubSeq(after, 1, Len(after) - 1) = LastK(before, Len(after) - 1)

\* C25: every snapshot passed to detect_anomalies on an initialized engine is
\* appended to the buffer exactly once, whether or not a detector fails for
\* it and whichever agent it came from; on an uninitialized engine
\* detect_anomalies returns the empty list and leaves the buffer unchanged.
C25_NoSnapshotDropped ==
    [][lastOp' = "agent_message" =>
          IF initialized
          THEN AppendedOnce(historical_data, historical_data', lastArg'.data)
          ELSE lastRet' = <<>> /\ historical_data' = historical_data]_vars

\* a pass in which a detector step raised, after a snapshot of another
\* agent; both snapshots are in the buffer
C25_Witness ==
    /\ PassReturned
    /\ failedAt # "none"
    /\ lastArg.agent_id = "a2"
    /\ Len(historical_data) = 2
    /\ Snapshots(historical_data) = ingested
    /\ historical_data[2].data = lastArg.data
    /\ historical_data[1].data # lastArg.data

-----------------------------------------------------------------------------
(* Claims about re-activation and the history listing (SpecAlerts) *)

\* this step is a process_alert that creates the alert of its Finding
Creates ==
    /\ lastOp' = "process_alert"
    /\ processCalls' = processCalls + 1
    /\ "type" \in DOMAIN lastArg'
    /\ ~HasAlert(active_alerts, AlertId(lastArg'))

\* C26: a Finding processed after resolve(key) succeeded creates a fresh
\* active alert with count = 1, first-seen = last-seen = the time of that
\* Finding and the severity and description of that Finding, and appends one
\* new entry to the history; the history grows by exactly one entry per alert
\* creation and by nothing else.
C26_ReactivationIsFresh ==
    [][/\ (Creates /\ AlertId(lastArg') \in resolvedIds) =>
            /\ HasAlert(active_alerts', AlertId(lastArg'))
            /\ AlertOf(active_alerts', AlertId(lastArg')).count = 1
            /\ AlertOf(active_alerts', AlertId(lastArg')).first_seen = now'
            /\ AlertOf(active_alerts', AlertId(lastArg')).last_seen = now'
            /\ AlertOf(active_alerts', AlertId(lastArg')).severity
                  = Get(lastArg', "severity", "medium")
            /\ AlertOf(active_alerts', AlertId(lastArg')).description
                  = Get(lastArg', "description", "")
            /\ AlertOf(active_alerts', AlertId(lastArg')).status = "active"
            /\ alert_history'
                  = Append(alert_history, AlertOf(active_alerts', AlertId(lastArg')))
       /\ Len(alert_history') = Len(alert_history) + (IF Creates THEN 1 ELSE 0)
      ]_vars

\* C27: for every limit >= 0 (0 included) and every history,
\* get_alert_history(limit) returns at most limit entries, namely the
\* min(limit, length) most recently created history entries in creation order.
C27_HistoryListingBounded ==
    lastOp = "get_alert_history" =>
        /\ Len(lastRet) <= lastArg
        /\ lastRet = LastK(alert_history, Min(lastArg, Len(alert_history)))

-----------------------------------------------------------------------------
(* Claim about concurrent detector passes (SpecPasses) *)

InPass(t) == task[t].pc \in {"await_system", "await_network", "await_pattern"}

\* C24: detector passes are serialized: two detect_anomalies passes never
\* interleave; between a pass's buffer append and its return no other pass
\* appends to or evicts from the buffer, so every detector of the pass reads
\* the same buffer contents, whose newest entry is the snapshot being scored.
C24_PassesAreSerialized ==
    \A t \in DOMAIN task :
        InPass(t) =>
            /\ \A u \in DOMAIN task \ {t} : ~InPass(u)
            /\ historical_data = task[t].after
            /\ \A i \in 1..Len(task[t].reads) : task[t].reads[i] = task[t].after
            /\ historical_data[Len(historical_data)].data = task[t].data

\* the pass of one agent's snapshot is at its last detector while the other
\* agent is connected and has delivered its snapshot before
C24_Witness ==
    /\ InPass("w1")
    /\ Len(task["w1"].reads) = 2
    /\ task["w3"].pc = "receive"
    /\ task["w3"].received = 1
    /\ socket["w3"] = "open"
    /\ Len(historical_data) = 2

-----------------------------------------------------------------------------
(* Claims about the ConnectionManager (SpecServer) *)

\* C29: under any interleaving of concurrent broadcast_to_dashboards calls
\* with dashboard connects and disconnects at the awaits of send_text, the
\* call never raises (it removes each connection whose send failed exactly
\* once), and it delivers the message to every dashboard that stays connected
\* for the whole broadcast.
C29_BroadcastNeverRaisesNorSkips ==
    \A t \in DOMAIN task :
        /\ task[t].frame.outcome # "raised"
        /\ task[t].frame.outcome = "returned" => task[t].frame.owed = {}

\* the handler of an agent socket is running on an open connection
HandlerRunning(w) ==
    /\ socket[w] = "open"
    /\ task[w].pc \in {"receive", "await_system", "await_network", "await_pattern",
                       "sending"}

Position(w) == CHOOSE i \in 1..Len(accepted) : accepted[i] = w

\* C30: whenever an agent id has an open connection whose handler is running,
\* agent_connections maps the id to its most recently accepted such
\* connection, also when the agent reconnects before the handler of its
\* earlier connection has called disconnect(websocket, agent_id).
C30_AgentMappedToLatestConnection ==
    \A agent_id \in Agents :
        \A w \in DOMAIN socket \cap AgentSockets :
            (/\ AgentIdOf(w) = agent_id
             /\ HandlerRunning(w)
             /\ \A v \in DOMAIN socket \cap AgentSockets :
                   (AgentIdOf(v) = agent_id /\ HandlerRunning(v))
                       => Position(v) <= Position(w))
            => /\ agent_id \in DOMAIN agent_connections
               /\ agent_connections[agent_id] = w

====
